---- MODULE Spec2Model ----
(***************************************************************************)
(* Reconciliation engine of alfredo1: the quantity normalizer, the rule    *)
(* applicator (applyTransformationRules) and the reconciler (compareData)  *)
(* of services/fileProcessor, driven by the App's state.                   *)
(*                                                                         *)
(* Strings are sequences of one-character strings, so that trim, replace,  *)
(* split, startsWith, includes and parseFloat are computed character by    *)
(* character.  Numbers are exact decimals with FracDigits fractional       *)
(* digits: [hi, lo] stands for hi + lo / 10^FracDigits, 0 <= lo < Unit.    *)
(***************************************************************************)
EXTENDS Integers, Sequences, FiniteSets, TLC

VARIABLES
    qCell,            \* normalizer harness: the cell value being read
    qNum,             \* normalizer harness: normalizeQuantity(qCell), or NotRun
    qPrev,            \* normalizer harness: the number last written into qCell
    originalData,     \* App state originalData: rows of the source table
    partialData,      \* App state partialData: rows of the target table
    mappings,         \* App state mappings: {original, partial} role -> column
    rules,            \* App state rules: TransformationRule[]
    aggregateCodes,   \* App state aggregateCodes: the aggregate flag last run
    ignoreRevision,   \* App state comparisonOptions.ignoreRevision
    results,          \* App state results: ComparisonResult[] or NoResults
    error,            \* App state error: a message or NoError
    rowsRead,         \* history: rows compareData iterated over in its last run
    transformed,      \* harness: the table applyTransformationRules returned
    rulesSheet,       \* harness: the rows of the rules file (jsonData)
    rulesParsed       \* harness: parseRulesFile has resolved with rules

vars == <<qCell, qNum, qPrev, originalData, partialData, mappings, rules,
          aggregateCodes, ignoreRevision, results, error, rowsRead, transformed,
          rulesSheet, rulesParsed>>

-----------------------------------------------------------------------------
(* Bounds of the model *)

FracDigits == 7
MaxLen == 3
MaxRows == 2
MaxRuleRows == 3
MaxRules == 2

-----------------------------------------------------------------------------
(* Values *)

\* null / undefined for a string-valued field; no string equals it, since
\* every element of a string is a single character.
Null == <<"NULL">>

RECURSIVE Pow10(_)
Pow10(k) == IF k <= 0 THEN 1 ELSE 10 * Pow10(k - 1)

Unit == Pow10(FracDigits)

\* A quantity value: a string, a number, or null.
StrQ(s) == [t |-> "str", s |-> s]
NumQ(h, l) == [t |-> "num", hi |-> h, lo |-> l]
NullQ == [t |-> "null"]
\* the value of a cell the row does not have
UndefinedQ == [t |-> "undefined"]

IsNum(q) == q.t = "num"
Zero == NumQ(0, 0)

NumAdd(a, b) ==
    LET l == a.lo + b.lo
    IN  IF l >= Unit THEN NumQ(a.hi + b.hi + 1, l - Unit)
                     ELSE NumQ(a.hi + b.hi, l)

NumNeg(a) == IF a.lo = 0 THEN NumQ(0 - a.hi, 0)
                         ELSE NumQ(0 - a.hi - 1, Unit - a.lo)

NumSub(a, b) == NumAdd(a, NumNeg(b))

\* Math.abs
NumAbs(a) == IF a.hi < 0 THEN NumNeg(a) ELSE a

NumLess(a, b) == a.hi < b.hi \/ (a.hi = b.hi /\ a.lo < b.lo)

\* a * 10 and a / 10 (a >= 0)
NumTimes10(a) == NumQ(a.hi * 10 + a.lo \div (Unit \div 10),
                      (a.lo % (Unit \div 10)) * 10)
NumDiv10(a) == NumQ(a.hi \div 10, (a.hi % 10) * (Unit \div 10) + a.lo \div 10)

RECURSIVE NumScale(_, _)
NumScale(a, e) == IF e = 0 THEN a
                  ELSE IF e > 0 THEN NumScale(NumTimes10(a), e - 1)
                  ELSE NumScale(NumDiv10(a), e + 1)

-----------------------------------------------------------------------------
(* String primitives of the JavaScript runtime *)

Digits == {"0", "1", "2", "3", "4", "5", "6", "7", "8", "9"}

DigitVal(c) == CASE c = "0" -> 0 [] c = "1" -> 1 [] c = "2" -> 2 [] c = "3" -> 3
                 [] c = "4" -> 4 [] c = "5" -> 5 [] c = "6" -> 6 [] c = "7" -> 7
                 [] c = "8" -> 8 [] c = "9" -> 9

DigitChar(d) == CASE d = 0 -> "0" [] d = 1 -> "1" [] d = 2 -> "2" [] d = 3 -> "3"
                  [] d = 4 -> "4" [] d = 5 -> "5" [] d = 6 -> "6" [] d = 7 -> "7"
                  [] d = 8 -> "8" [] d = 9 -> "9"

IsSpace(c) == c = " "

Drop(s, k) == IF k >= Len(s) THEN <<>> ELSE SubSeq(s, k + 1, Len(s))
Take(s, k) == IF k >= Len(s) THEN s ELSE SubSeq(s, 1, k)

RECURSIVE TrimStart(_)
TrimStart(s) == IF s # <<>> /\ IsSpace(Head(s)) THEN TrimStart(Tail(s)) ELSE s

RECURSIVE TrimEnd(_)
TrimEnd(s) == IF s # <<>> /\ IsSpace(s[Len(s)])
              THEN TrimEnd(SubSeq(s, 1, Len(s) - 1)) ELSE s

\* String.prototype.trim
Trim(s) == TrimEnd(TrimStart(s))

\* s.replace(/c/g, '')
RemoveAll(s, c) == SelectSeq(s, LAMBDA x : x # c)

\* s.replace(c, d) with a string pattern: only the first occurrence
RECURSIVE ReplaceFirst(_, _, _)
ReplaceFirst(s, c, d) ==
    IF s = <<>> THEN <<>>
    ELSE IF Head(s) = c THEN <<d>> \o Tail(s)
    ELSE <<Head(s)>> \o ReplaceFirst(Tail(s), c, d)

\* String.prototype.startsWith
StartsWith(s, p) == Len(p) <= Len(s) /\ SubSeq(s, 1, Len(p)) = p

\* String.prototype.includes
Includes(s, p) == \E i \in 0..(Len(s) - Len(p)) : SubSeq(s, i + 1, i + Len(p)) = p

LowerCase == <<"a", "b", "c", "d", "e", "f", "g", "h", "i", "j", "k", "l", "m",
              "n", "o", "p", "q", "r", "s", "t", "u", "v", "w", "x", "y", "z">>
UpperCase == <<"A", "B", "C", "D", "E", "F", "G", "H", "I", "J", "K", "L", "M",
              "N", "O", "P", "Q", "R", "S", "T", "U", "V", "W", "X", "Y", "Z">>

UpperChar(c) == IF \E i \in 1..26 : LowerCase[i] = c
                THEN UpperCase[CHOOSE i \in 1..26 : LowerCase[i] = c]
                ELSE c

\* String.prototype.toUpperCase
ToUpperCase(s) == [i \in 1..Len(s) |-> UpperChar(s[i])]

\* number of leading digits of s
RECURSIVE DigitRun(_)
DigitRun(s) == IF s # <<>> /\ Head(s) \in Digits THEN 1 + DigitRun(Tail(s)) ELSE 0

\* the decimal digits ds read as a natural number
RECURSIVE DigitsToNat(_)
DigitsToNat(ds) == IF ds = <<>> THEN 0
                   ELSE DigitsToNat(SubSeq(ds, 1, Len(ds) - 1)) * 10
                        + DigitVal(ds[Len(ds)])

\* the fractional digits ds as a count of 10^-FracDigits (digits past the
\* model's precision are cut)
FracToLo(ds) ==
    LET kept == Take(ds, FracDigits)
    IN  DigitsToNat(kept) * Pow10(FracDigits - Len(kept))

\* parseFloat: leading white space, a sign, digits with at most one ".",
\* an exponent; the longest prefix that is a number is read, and the rest
\* ignored; NaN (here NullQ, as the caller maps NaN to null) without a digit.
IsNegative(s) == s # <<>> /\ Head(s) = "-"
StripSign(s) == IF s # <<>> /\ Head(s) \in {"-", "+"} THEN Tail(s) ELSE s
WithSign(neg, q) == IF neg /\ IsNum(q) THEN NumNeg(q) ELSE q

\* the leading digits of s, and what follows them
LeadingDigits(s) == Take(s, DigitRun(s))
AfterDigits(s) == Drop(s, DigitRun(s))

\* the digits after a decimal point at the head of s, and what follows them
FractionDigits(s) ==
    IF s # <<>> /\ Head(s) = "." THEN LeadingDigits(Tail(s)) ELSE <<>>
AfterFraction(s) ==
    IF s # <<>> /\ Head(s) = "." THEN AfterDigits(Tail(s)) ELSE s

\* the exponent at the head of s: e or E, a sign, digits (0 without digits)
ExponentOf(s) ==
    IF s # <<>> /\ Head(s) \in {"e", "E"}
    THEN IF IsNegative(Tail(s))
         THEN 0 - DigitsToNat(LeadingDigits(StripSign(Tail(s))))
         ELSE DigitsToNat(LeadingDigits(StripSign(Tail(s))))
    ELSE 0

ParseMagnitude(intDigits, fracDigits, rest) ==
    IF Len(intDigits) + Len(fracDigits) = 0 THEN NullQ
    ELSE NumScale(NumQ(DigitsToNat(intDigits), FracToLo(fracDigits)),
                  ExponentOf(rest))

ParseUnsigned(s) ==
    ParseMagnitude(LeadingDigits(s), FractionDigits(AfterDigits(s)),
                   AfterFraction(AfterDigits(s)))

ParseFloat(str) ==
    WithSign(IsNegative(TrimStart(str)), ParseUnsigned(StripSign(TrimStart(str))))

RECURSIVE NatToStr(_)
NatToStr(n) == IF n < 10 THEN <<DigitChar(n)>>
               ELSE NatToStr(n \div 10) \o <<DigitChar(n % 10)>>

RECURSIVE StripZerosEnd(_)
StripZerosEnd(s) == IF s # <<>> /\ s[Len(s)] = "0"
                    THEN StripZerosEnd(SubSeq(s, 1, Len(s) - 1)) ELSE s

RECURSIVE PadZerosStart(_, _)
PadZerosStart(s, k) == IF Len(s) >= k THEN s ELSE PadZerosStart(<<"0">> \o s, k)

\* Number.prototype.toString of a >= 0: decimal notation from 1e-6 up,
\* exponential notation below ("5e-7", "1.5e-7")
PosToStr(a) ==
    IF a.hi = 0 /\ a.lo # 0 /\ a.lo < Pow10(FracDigits - 6)
    THEN LET ds == NatToStr(a.lo)
             m  == StripZerosEnd(ds)
             e  == FracDigits - Len(ds) + 1
         IN  <<Head(m)>> \o (IF Len(m) > 1 THEN <<".">> \o Tail(m) ELSE <<>>)
             \o <<"e", "-">> \o NatToStr(e)
    ELSE NatToStr(a.hi)
         \o (IF a.lo = 0 THEN <<>>
             ELSE <<".">> \o StripZerosEnd(PadZerosStart(NatToStr(a.lo), FracDigits)))

NumToStr(a) == IF a.hi < 0 THEN <<"-">> \o PosToStr(NumNeg(a)) ELSE PosToStr(a)

\* String(value) of a cell that holds a string or a number (or is missing)
StringOf(q) == CASE q.t = "num" -> NumToStr(q)
                 [] q.t = "str" -> q.s
                 [] q.t = "null" -> <<"n", "u", "l", "l">>
                 [] OTHER -> <<"u", "n", "d", "e", "f", "i", "n", "e", "d">>

-----------------------------------------------------------------------------
(* Quantity Normalizer *)

normalizeQuantity(value) ==
    IF value.t \in {"null", "undefined"} \/ (value.t = "str" /\ value.s = <<>>)
    THEN NullQ
    ELSE LET strValue == ReplaceFirst(RemoveAll(Trim(StringOf(value)), "."), ",", ".")
         IN  ParseFloat(strValue)

-----------------------------------------------------------------------------
(* Tables, rules *)

NoColumn == "null"

\* row[column]
Cell(row, column) == IF column \in DOMAIN row THEN row[column] ELSE UndefinedQ

\* String(row[column])
CellStr(row, column) == StringOf(Cell(row, column))

\* String(row[column] || ''): undefined, '' and 0 are falsy
CellStrOrEmpty(row, column) ==
    LET v == Cell(row, column)
    IN  IF \/ v.t = "undefined"
           \/ (v.t = "str" /\ v.s = <<>>)
           \/ (v.t = "num" /\ v.hi = 0 /\ v.lo = 0)
        THEN <<>>
        ELSE StringOf(v)

MERGE == "UNIONE"
EXCLUDE == "ESCLUDI"

ExcludeSubType == {"CODE_EXACT", "CODE_PREFIX", "DESCRIPTION_CONTAINS",
                   "DESCRIPTION_PREFIX", "CATEGORY_EXACT"}

\* s.split(c): the pieces of s between the occurrences of c
RECURSIVE Split(_, _)
Split(s, c) ==
    IF \A i \in 1..Len(s) : s[i] # c THEN <<s>>
    ELSE LET k == CHOOSE i \in 1..Len(s) : s[i] = c /\ \A j \in 1..(i - 1) : s[j] # c
         IN  <<SubSeq(s, 1, k - 1)>> \o Split(Drop(s, k), c)

SeqToSet(q) == {q[i] : i \in 1..Len(q)}

\* mutant: only a rule whose flag is set takes part
activeRulesFlagSet(rs) == SelectSeq(rs, LAMBDA r : r.enabled = "true")

\* rules.filter(r => r.enabled !== false)
activeRules(rs) == SelectSeq(rs, LAMBDA r : r.enabled # "false")
excludeRules(rs) == SelectSeq(activeRules(rs), LAMBDA r : r.type = EXCLUDE)
mergeRules(rs) == SelectSeq(activeRules(rs), LAMBDA r : r.type = MERGE)

-----------------------------------------------------------------------------
(* Rule Applicator: exclusion pass *)

\* the switch on rule.subType: TRUE when the rule makes the filter return false
ExcludeMatches(rule, row, codeColumn, descriptionColumn, categoryColumn) ==
    CASE rule.subType = "CODE_EXACT" ->
           CellStr(row, codeColumn) \in
               {Trim(c) : c \in SeqToSet(Split(rule.value, "+"))}
      [] rule.subType = "CODE_PREFIX" ->
           StartsWith(CellStr(row, codeColumn), rule.value)
      [] rule.subType = "DESCRIPTION_CONTAINS" ->
           /\ descriptionColumn # NoColumn
           /\ Includes(ToUpperCase(CellStrOrEmpty(row, descriptionColumn)),
                       ToUpperCase(rule.value))
      [] rule.subType = "DESCRIPTION_PREFIX" ->
           /\ descriptionColumn # NoColumn
           /\ StartsWith(ToUpperCase(CellStrOrEmpty(row, descriptionColumn)),
                         ToUpperCase(rule.value))
      [] rule.subType = "CATEGORY_EXACT" ->
           /\ categoryColumn # NoColumn
           /\ Trim(CellStrOrEmpty(row, categoryColumn)) = rule.value
      [] OTHER -> FALSE

\* mutant: only the first rule of the list is tested
ExcludePassFirstRuleOnly(data, exRules, codeColumn, descriptionColumn, categoryColumn) ==
    IF Len(exRules) > 0
    THEN SelectSeq(data, LAMBDA row :
            ~ExcludeMatches(exRules[1], row, codeColumn, descriptionColumn,
                            categoryColumn))
    ELSE data

\* data.filter(row => { for (const rule of excludeRules) ...; return true })
ExcludePass(data, exRules, codeColumn, descriptionColumn, categoryColumn) ==
    IF Len(exRules) > 0
    THEN SelectSeq(data, LAMBDA row :
            \A i \in 1..Len(exRules) :
                ~ExcludeMatches(exRules[i], row, codeColumn, descriptionColumn,
                                categoryColumn))
    ELSE data

-----------------------------------------------------------------------------
(* Rule Applicator: merge pass *)

\* mutant: every row to merge is added
RECURSIVE MergeTotalEveryRow(_, _, _, _, _)
MergeTotalEveryRow(rowsToMerge, processedCodes, sum, codeColumn, quantityColumn) ==
    IF rowsToMerge = <<>> THEN sum
    ELSE LET quantity == normalizeQuantity(Cell(Head(rowsToMerge), quantityColumn))
         IN  MergeTotalEveryRow(Tail(rowsToMerge), processedCodes,
                                NumAdd(sum, IF IsNum(quantity) THEN quantity ELSE Zero),
                                codeColumn, quantityColumn)

\* rowsToMerge.reduce(...): every distinct code counts once, by its first row;
\* quantity || 0 for a null (or zero) quantity
RECURSIVE MergeTotal(_, _, _, _, _)
MergeTotal(rowsToMerge, processedCodes, sum, codeColumn, quantityColumn) ==
    IF rowsToMerge = <<>> THEN sum
    ELSE LET row      == Head(rowsToMerge)
             code     == CellStr(row, codeColumn)
             quantity == normalizeQuantity(Cell(row, quantityColumn))
         IN  IF code \notin processedCodes
             THEN MergeTotal(Tail(rowsToMerge), processedCodes \cup {code},
                             NumAdd(sum, IF IsNum(quantity) THEN quantity ELSE Zero),
                             codeColumn, quantityColumn)
             ELSE MergeTotal(Tail(rowsToMerge), processedCodes, sum,
                             codeColumn, quantityColumn)

\* parsedFile.headers.forEach(header => newRow[header] = ...)
NewRow(headers, rule, totalQuantity, codeColumn, quantityColumn, descriptionColumn) ==
    [header \in SeqToSet(headers) |->
        IF header = codeColumn THEN StrQ(rule.resultCode)
        ELSE IF header = quantityColumn THEN totalQuantity
        ELSE IF descriptionColumn # NoColumn /\ header = descriptionColumn
             THEN StrQ(rule.resultDescription)
        ELSE StrQ(<<>>)]

\* mutant: the synthesized row is put first
MergeOneNewRowFirst(data, rule, headers, codeColumn, quantityColumn, descriptionColumn) ==
    IF rule.resultCode = <<>> THEN data
    ELSE LET sourceCodesSet == SeqToSet(rule.sourceCodes)
             rowsToMerge    == SelectSeq(data, LAMBDA row :
                                   CellStr(row, codeColumn) \in sourceCodesSet)
             remainingRows  == SelectSeq(data, LAMBDA row :
                                   CellStr(row, codeColumn) \notin sourceCodesSet)
         IN  IF Len(rowsToMerge) > 0
             THEN <<NewRow(headers, rule,
                           MergeTotal(rowsToMerge, {}, Zero, codeColumn,
                                      quantityColumn),
                           codeColumn, quantityColumn, descriptionColumn)>>
                  \o remainingRows
             ELSE data

\* one iteration of for (const rule of mergeRules)
MergeOne(data, rule, headers, codeColumn, quantityColumn, descriptionColumn) ==
    IF rule.resultCode = <<>> THEN data
    ELSE LET sourceCodesSet == SeqToSet(rule.sourceCodes)
             rowsToMerge    == SelectSeq(data, LAMBDA row :
                                   CellStr(row, codeColumn) \in sourceCodesSet)
             remainingRows  == SelectSeq(data, LAMBDA row :
                                   CellStr(row, codeColumn) \notin sourceCodesSet)
         IN  IF Len(rowsToMerge) > 0
             THEN Append(remainingRows,
                         NewRow(headers, rule,
                                MergeTotal(rowsToMerge, {}, Zero, codeColumn,
                                           quantityColumn),
                                codeColumn, quantityColumn, descriptionColumn))
             ELSE data

RECURSIVE MergePass(_, _, _, _, _, _)
MergePass(data, mRules, headers, codeColumn, quantityColumn, descriptionColumn) ==
    IF mRules = <<>> THEN data
    ELSE MergePass(MergeOne(data, Head(mRules), headers, codeColumn,
                            quantityColumn, descriptionColumn),
                   Tail(mRules), headers, codeColumn, quantityColumn,
                   descriptionColumn)

\* mutant: the MERGE rules are applied first, the EXCLUDE rules to what they leave
applyMergeBeforeExclude(parsedFile, rs, codeColumn, quantityColumn, descriptionColumn, categoryColumn) ==
    [headers |-> parsedFile.headers,
     data    |-> ExcludePass(MergePass(parsedFile.data, mergeRules(rs),
                                       parsedFile.headers, codeColumn,
                                       quantityColumn, descriptionColumn),
                             excludeRules(rs), codeColumn, descriptionColumn,
                             categoryColumn)]

applyTransformationRules(parsedFile, rs, codeColumn, quantityColumn, descriptionColumn, categoryColumn) ==
    [headers |-> parsedFile.headers,
     data    |-> MergePass(ExcludePass(parsedFile.data, excludeRules(rs), codeColumn,
                                       descriptionColumn, categoryColumn),
                           mergeRules(rs), parsedFile.headers, codeColumn,
                           quantityColumn, descriptionColumn)]

-----------------------------------------------------------------------------
(* Rule Interpreter: parseRulesFile *)

\* the spelling of the values of RuleType and ExcludeSubType
Spelling ==
    [name \in {MERGE, EXCLUDE} \cup ExcludeSubType |->
        CASE name = MERGE -> <<"U", "N", "I", "O", "N", "E">>
          [] name = EXCLUDE -> <<"E", "S", "C", "L", "U", "D", "I">>
          [] name = "CODE_EXACT" -> <<"C", "O", "D", "E", "_", "E", "X", "A",
                                      "C", "T">>
          [] name = "CODE_PREFIX" -> <<"C", "O", "D", "E", "_", "P", "R",
                                       "E", "F", "I", "X">>
          [] name = "DESCRIPTION_CONTAINS" ->
                 <<"D", "E", "S", "C", "R", "I", "P", "T", "I", "O", "N",
                   "_", "C", "O", "N", "T", "A", "I", "N", "S">>
          [] name = "DESCRIPTION_PREFIX" ->
                 <<"D", "E", "S", "C", "R", "I", "P", "T", "I", "O", "N",
                   "_", "P", "R", "E", "F", "I", "X">>
          [] name = "CATEGORY_EXACT" ->
                 <<"C", "A", "T", "E", "G", "O", "R", "Y", "_", "E", "X",
                   "A", "C", "T">>]

Quote == "\""

\* \s*: the index after the white space that starts at index i
RECURSIVE SkipSpaces(_, _)
SkipSpaces(s, i) ==
    IF i <= Len(s) /\ IsSpace(s[i]) THEN SkipSpaces(s, i + 1) ELSE i

\* a literal of a regular expression with the i flag, at index i
LiteralAt(s, i, w) ==
    /\ i + Len(w) - 1 <= Len(s)
    /\ ToUpperCase(SubSeq(s, i, i + Len(w) - 1)) = w

\* words separated by \s+, each word one of some literals, from index i:
\* the indexes after the last word
RECURSIVE WordsAt(_, _, _)
WordsAt(s, i, words) ==
    UNION { LET j == i + Len(w)
            IN  IF Len(words) = 1 THEN {j}
                ELSE IF SkipSpaces(s, j) > j
                     THEN WordsAt(s, SkipSpaces(s, j), Tail(words))
                     ELSE {} :
            w \in {v \in Head(words) : LiteralAt(s, i, v)} }

\* "([^"]+)" at index q: the captured text, in a one-element set
QuotedAt(s, q) ==
    IF q <= Len(s) /\ s[q] = Quote /\ \E c \in (q + 1)..Len(s) : s[c] = Quote
    THEN LET c == CHOOSE k \in (q + 1)..Len(s) :
                      s[k] = Quote /\ \A m \in (q + 1)..(k - 1) : s[m] # Quote
         IN  IF c > q + 1 THEN {SubSeq(s, q + 1, c - 1)} ELSE {}
    ELSE {}

\* the captures of a pattern matched from index i: its words, the white
\* space before the quote (at least pattern.spaces characters), the quoted
\* text
CapturesAt(s, i, pattern) ==
    UNION { IF SkipSpaces(s, j) - j >= pattern.spaces
            THEN QuotedAt(s, SkipSpaces(s, j)) ELSE {} :
            j \in WordsAt(s, i, pattern.words) }

NoMatch == [t |-> "null"]
Captured(text) == [t |-> "match", text |-> text]

\* str.match(regex)?.[1]: the capture of the leftmost match.  The optional
\* group that opens each expression ((?:TUTTI\s+LE\s+)? and the like) is
\* left out: it moves the start of a match, never its capture.
Match(s, pattern) ==
    IF \E i \in 1..Len(s) : CapturesAt(s, i, pattern) # {}
    THEN LET i == CHOOSE k \in 1..Len(s) :
                      /\ CapturesAt(s, k, pattern) # {}
                      /\ \A m \in 1..(k - 1) : CapturesAt(s, m, pattern) = {}
         IN  Captured(CHOOSE text \in CapturesAt(s, i, pattern) : TRUE)
    ELSE NoMatch

Che == {<<"C", "H", "E">>}
Inizia == {<<"I", "N", "I", "Z", "I", "A">>,
           <<"I", "N", "I", "Z", "I", "A", "N", "O">>}
PerCon == {<<"P", "E", "R">>, <<"C", "O", "N">>}

\* DESCRIZIONI\s+CONTENENTI\s*"([^"]+)"
descriptionExclusionRegex ==
    [words |-> <<{<<"D", "E", "S", "C", "R", "I", "Z", "I", "O", "N", "I">>},
                 {<<"C", "O", "N", "T", "E", "N", "E", "N", "T", "I">>}>>,
     spaces |-> 0]

\* DESCRIZIONI\s+CHE\s+INIZIA(?:NO)?\s+(?:PER|CON)\s*"([^"]+)"
descriptionStartsWithRegex ==
    [words |-> <<{<<"D", "E", "S", "C", "R", "I", "Z", "I", "O", "N", "I">>},
                 Che, Inizia, PerCon>>,
     spaces |-> 0]

\* CODIC[EI]\s+CHE\s+INIZIA(?:NO)?\s+(?:PER|CON)\s*"([^"]+)"
codeStartsWithRegex ==
    [words |-> <<{<<"C", "O", "D", "I", "C", "E">>,
                  <<"C", "O", "D", "I", "C", "I">>},
                 Che, Inizia, PerCon>>,
     spaces |-> 0]

\* CATEGORIE\s+MERCEOLOGICHE\s+"([^"]+)"
categoryExclusionRegex ==
    [words |-> <<{<<"C", "A", "T", "E", "G", "O", "R", "I", "E">>},
                 {<<"M", "E", "R", "C", "E", "O", "L", "O", "G", "I", "C",
                    "H", "E">>}>>,
     spaces |-> 1]

\* a || b: a when a is truthy
Truthy(v) ==
    ~(\/ v.t = "undefined" \/ v.t = "null"
      \/ (v.t = "str" /\ v.s = <<>>)
      \/ (v.t = "num" /\ v.hi = 0 /\ v.lo = 0))

\* String(row a || row b || '')
FirstTruthyText(row, a, b) ==
    IF Truthy(Cell(row, a)) THEN CellStr(row, a) ELSE CellStrOrEmpty(row, b)

TypeOf(row) == ToUpperCase(Trim(CellStrOrEmpty(row, "Tipo")))
CodesOrValueOf(row) == Trim(FirstTruthyText(row, "Codici da unire", "Valore"))
SubTypeStrOf(row) == Trim(CellStrOrEmpty(row, "Sotto-tipo"))

\* Object.values(ExcludeSubType).includes(subTypeStr)
IsSubType(text) == \E name \in ExcludeSubType : Spelling[name] = text
SubTypeNamed(text) == CHOOSE name \in ExcludeSubType : Spelling[name] = text

MergeRule(sourceCodes, resultCode, resultDescription) ==
    [type |-> MERGE, subType |-> "", value |-> <<>>, sourceCodes |-> sourceCodes,
     resultCode |-> resultCode, resultDescription |-> resultDescription,
     enabled |-> "true"]

ExcludeRule(subType, value) ==
    [type |-> EXCLUDE, subType |-> subType, value |-> value, sourceCodes |-> <<>>,
     resultCode |-> <<>>, resultDescription |-> <<>>, enabled |-> "true"]

NoRule == [type |-> "null"]

\* the legacy patterns, tried in this order when no sub-type is named
LegacyOf(codesOrValue, patterns) ==
    IF Match(codesOrValue, patterns[1].regex) # NoMatch
    THEN ExcludeRule(patterns[1].subType, Match(codesOrValue, patterns[1].regex).text)
    ELSE IF Match(codesOrValue, patterns[2].regex) # NoMatch
    THEN ExcludeRule(patterns[2].subType, Match(codesOrValue, patterns[2].regex).text)
    ELSE IF Match(codesOrValue, patterns[3].regex) # NoMatch
    THEN ExcludeRule(patterns[3].subType, Match(codesOrValue, patterns[3].regex).text)
    ELSE IF Match(codesOrValue, patterns[4].regex) # NoMatch
    THEN ExcludeRule(patterns[4].subType, Match(codesOrValue, patterns[4].regex).text)
    ELSE ExcludeRule("CODE_EXACT", codesOrValue)

DescriptionContains ==
    [regex |-> descriptionExclusionRegex, subType |-> "DESCRIPTION_CONTAINS"]
DescriptionPrefix ==
    [regex |-> descriptionStartsWithRegex, subType |-> "DESCRIPTION_PREFIX"]
CodePrefix == [regex |-> codeStartsWithRegex, subType |-> "CODE_PREFIX"]
CategoryExact == [regex |-> categoryExclusionRegex, subType |-> "CATEGORY_EXACT"]

\* mutant: the code-prefix pattern is tried first
ExcludeOfCodePrefixFirst(subTypeStr, codesOrValue) ==
    IF subTypeStr # <<>> /\ IsSubType(subTypeStr)
    THEN ExcludeRule(SubTypeNamed(subTypeStr), codesOrValue)
    ELSE LegacyOf(codesOrValue,
                  <<CodePrefix, DescriptionContains, DescriptionPrefix, CategoryExact>>)

\* the EXCLUDE branch of the row mapper
ExcludeOf(subTypeStr, codesOrValue) ==
    IF subTypeStr # <<>> /\ IsSubType(subTypeStr)
    THEN ExcludeRule(SubTypeNamed(subTypeStr), codesOrValue)
    ELSE LegacyOf(codesOrValue,
                  <<DescriptionContains, DescriptionPrefix, CodePrefix, CategoryExact>>)

\* the MERGE branch of the row mapper
MergeOf(row, codesOrValue) ==
    LET pieces      == Split(codesOrValue, "+")
        sourceCodes == SelectSeq([i \in 1..Len(pieces) |-> Trim(pieces[i])],
                                 LAMBDA c : c # <<>>)
        resultCode  == CellStr(row, "Codice risultante")
    IN  IF resultCode = <<>> \/ Len(sourceCodes) < 1 THEN NoRule
        ELSE MergeRule(sourceCodes, resultCode,
                       CellStr(row, "Descrizione risultante"))

\* jsonData.map(row => ...): the rule of one row, or null
RuleOfRow(row) ==
    IF TypeOf(row) = <<>> \/ CodesOrValueOf(row) = <<>> THEN NoRule
    ELSE IF TypeOf(row) = Spelling[MERGE] THEN MergeOf(row, CodesOrValueOf(row))
    ELSE IF TypeOf(row) = Spelling[EXCLUDE]
         THEN ExcludeOf(SubTypeStrOf(row), CodesOrValueOf(row))
    ELSE NoRule

\* parseRulesFile: the rules of the rows, the null ones filtered out
parseRulesFile(jsonData) ==
    SelectSeq([i \in 1..Len(jsonData) |-> RuleOfRow(jsonData[i])],
              LAMBDA r : r # NoRule)

-----------------------------------------------------------------------------
(* Key Resolver *)

Sep == <<":", ":">>

\* mutant: the revision is part of the key whatever the option says
getKeyWithRevision(code, revision, ignoreRev) ==
    code \o Sep \o (IF revision = Null THEN <<>> ELSE revision)

\* mutant: String(revision) without the ?? '', a null revision reads "null"
getKeyNullText(code, revision, ignoreRev) ==
    IF ignoreRev THEN code
    ELSE code \o Sep \o (IF revision = Null THEN <<"n", "u", "l", "l">> ELSE revision)

\* getKey: String(code), or `${String(code)}::${String(revision ?? '')}`
getKey(code, revision, ignoreRev) ==
    IF ignoreRev THEN code
    ELSE code \o Sep \o (IF revision = Null THEN <<>> ELSE revision)

\* key.split('::')[0]: the key up to its first "::"
RECURSIVE BeforeSep(_)
BeforeSep(key) ==
    IF Len(key) < 2 THEN key
    ELSE IF SubSeq(key, 1, 2) = Sep THEN <<>>
    ELSE <<Head(key)>> \o BeforeSep(Tail(key))

-----------------------------------------------------------------------------
(* Reconciler: ComparisonResult, the fields read from a row *)

QUANTITY_EQUAL == "Quantità uguale"
QUANTITY_DIFFERENT == "Quantità diversa"
REVISION_DIFFERENT == "Revisione diversa"
ABSENT == "Cod. Assenti in Distinta Gestionale"
ABSENT_IN_ORIGINAL == "Cod. Assenti in Distinta Cliente"
INVALID_QUANTITY == "Quantità non interpretabile"

\* the exponent of the tolerance 1e-6
TolExp == 6
Tolerance == NumQ(0, Pow10(FracDigits - TolExp))

\* mutant: <= in place of <
WithinToleranceInclusive(a, b) ==
    LET d == NumAbs(NumSub(a, b)) IN NumLess(d, Tolerance) \/ d = Tolerance

\* Math.abs(a - b) < 1e-6
WithinTolerance(a, b) == NumLess(NumAbs(NumSub(a, b)), Tolerance)

Result(oCode, oQty, oDesc, oRev, oCat, pCode, pQty, pDesc, pRev, pCat, st) ==
    [originalCode |-> oCode, originalQuantity |-> oQty,
     originalDescription |-> oDesc, originalRevision |-> oRev,
     originalCategory |-> oCat,
     partialCode |-> pCode, partialQuantity |-> pQty,
     partialDescription |-> pDesc, partialRevision |-> pRev,
     partialCategory |-> pCat, status |-> st]

\* map.role ? String(row[map.role]) : null
Optional(row, column) == IF column # NoColumn THEN CellStr(row, column) ELSE Null

RowCode(row, map) == CellStr(row, map.code)
RowQuantity(row, map) == normalizeQuantity(Cell(row, map.quantity))
RowDescription(row, map) == Optional(row, map.description)
RowRevision(row, map) == Optional(row, map.revision)
RowCategory(row, map) == Optional(row, map.category)
RowKey(row, map, ignoreRev) == getKey(RowCode(row, map), RowRevision(row, map), ignoreRev)

\* the value of an expression (the one element of a singleton), computed
\* once and named
The(S) == CHOOSE x \in S : TRUE

\* insertion-ordered Map: a sequence of entries with a key field
MapHas(m, k) == \E i \in 1..Len(m) : m[i].key = k
MapIndex(m, k) == CHOOSE i \in 1..Len(m) : m[i].key = k
MapGet(m, k) == m[MapIndex(m, k)]

-----------------------------------------------------------------------------
(* Reconciler step 1: the target index *)

\* mutant: a row without a code is indexed too
PartialMapAddAnyCode(pmd, row, partialMap, ignoreRev) ==
    LET quantity == RowQuantity(row, partialMap)
        key      == RowKey(row, partialMap, ignoreRev)
    IN  IF IsNum(quantity)
        THEN IF MapHas(pmd, key)
             THEN [pmd EXCEPT ![MapIndex(pmd, key)].quantity = NumAdd(@, quantity)]
             ELSE Append(pmd, [key |-> key, quantity |-> quantity,
                               description |-> RowDescription(row, partialMap),
                               revision |-> RowRevision(row, partialMap),
                               category |-> RowCategory(row, partialMap)])
        ELSE pmd

\* mutant: a later row of a key replaces the entry of the key
PartialMapAddLastRow(pmd, row, partialMap, ignoreRev) ==
    LET code     == RowCode(row, partialMap)
        quantity == RowQuantity(row, partialMap)
        key      == RowKey(row, partialMap, ignoreRev)
        entry    == [key |-> key, quantity |-> quantity,
                     description |-> RowDescription(row, partialMap),
                     revision |-> RowRevision(row, partialMap),
                     category |-> RowCategory(row, partialMap)]
    IN  IF code # <<>> /\ IsNum(quantity)
        THEN IF MapHas(pmd, key)
             THEN [pmd EXCEPT ![MapIndex(pmd, key)] = entry]
             ELSE Append(pmd, entry)
        ELSE pmd

\* partialMapData after one more row
PartialMapAdd(pmd, row, partialMap, ignoreRev) ==
    LET code     == RowCode(row, partialMap)
        quantity == RowQuantity(row, partialMap)
        key      == RowKey(row, partialMap, ignoreRev)
    IN  IF code # <<>> /\ IsNum(quantity)
        THEN IF MapHas(pmd, key)
             THEN [pmd EXCEPT ![MapIndex(pmd, key)].quantity = NumAdd(@, quantity)]
             ELSE Append(pmd, [key |-> key, quantity |-> quantity,
                               description |-> RowDescription(row, partialMap),
                               revision |-> RowRevision(row, partialMap),
                               category |-> RowCategory(row, partialMap)])
        ELSE pmd

\* the revision list of one code after one more row of that code
RevisionListAdd(revisionList, row, partialMap) ==
    LET revision == RowRevision(row, partialMap)
        quantity == RowQuantity(row, partialMap)
    IN  IF \E i \in 1..Len(revisionList) : revisionList[i].revision = revision
        THEN LET i == CHOOSE j \in 1..Len(revisionList) :
                          revisionList[j].revision = revision
             IN  [revisionList EXCEPT ![i].quantity = NumAdd(@, quantity)]
        ELSE Append(revisionList, [revision |-> revision,
                                   description |-> RowDescription(row, partialMap),
                                   quantity |-> quantity,
                                   category |-> RowCategory(row, partialMap)])

\* partialCodeToRevisions after one more row
CodeToRevisionsAdd(pcr, row, partialMap, ignoreRev) ==
    LET code     == RowCode(row, partialMap)
        quantity == RowQuantity(row, partialMap)
    IN  IF code # <<>> /\ IsNum(quantity) /\ ~ignoreRev
        THEN IF MapHas(pcr, code)
             THEN [pcr EXCEPT ![MapIndex(pcr, code)].list =
                                  RevisionListAdd(@, row, partialMap)]
             ELSE Append(pcr, [key |-> code,
                               list |-> RevisionListAdd(<<>>, row, partialMap)])
        ELSE pcr

RECURSIVE partialMapData(_, _, _)
partialMapData(rows, partialMap, ignoreRev) ==
    IF rows = <<>> THEN <<>>
    ELSE PartialMapAdd(partialMapData(SubSeq(rows, 1, Len(rows) - 1), partialMap,
                                      ignoreRev),
                       rows[Len(rows)], partialMap, ignoreRev)

RECURSIVE partialCodeToRevisions(_, _, _)
partialCodeToRevisions(rows, partialMap, ignoreRev) ==
    IF rows = <<>> THEN <<>>
    ELSE CodeToRevisionsAdd(partialCodeToRevisions(SubSeq(rows, 1, Len(rows) - 1),
                                                   partialMap, ignoreRev),
                            rows[Len(rows)], partialMap, ignoreRev)

\* mutant: the revision list of the code, last-seen revision first
otherRevisionsLastFirst(pcr, code, ignoreRev) ==
    IF ~ignoreRev /\ MapHas(pcr, code)
    THEN LET list == MapGet(pcr, code).list
         IN  [i \in 1..Len(list) |-> list[Len(list) + 1 - i]]
    ELSE <<>>

\* !options.ignoreRevision ? partialCodeToRevisions.get(code) : undefined,
\* with undefined as the empty list (both fail the length > 0 test)
otherRevisionsOf(pcr, code, ignoreRev) ==
    IF ~ignoreRev /\ MapHas(pcr, code) THEN MapGet(pcr, code).list ELSE <<>>

\* otherRevisions.forEach(rev => processed.add(getKey(code, rev.revision)))
RevisionKeys(otherRevisions, code, ignoreRev) ==
    {getKey(code, otherRevisions[i].revision, ignoreRev) :
        i \in 1..Len(otherRevisions)}

-----------------------------------------------------------------------------
(* Reconciler step 2, aggregated path *)

\* originalAggregatedData after one more row
OriginalGroupAdd(oad, row, originalMap, ignoreRev) ==
    LET code     == RowCode(row, originalMap)
        quantity == RowQuantity(row, originalMap)
        key      == RowKey(row, originalMap, ignoreRev)
    IN  IF code # <<>>
        THEN IF MapHas(oad, key)
             THEN [oad EXCEPT ![MapIndex(oad, key)] =
                      [@ EXCEPT !.quantity = IF IsNum(quantity)
                                             THEN NumAdd(@, quantity) ELSE @,
                                !.rows = Append(@, row)]]
             ELSE Append(oad, [key |-> key,
                               quantity |-> IF IsNum(quantity) THEN quantity ELSE Zero,
                               description |-> RowDescription(row, originalMap),
                               revision |-> RowRevision(row, originalMap),
                               category |-> RowCategory(row, originalMap),
                               rows |-> <<row>>])
        ELSE oad

RECURSIVE originalAggregatedData(_, _, _)
originalAggregatedData(rows, originalMap, ignoreRev) ==
    IF rows = <<>> THEN <<>>
    ELSE OriginalGroupAdd(originalAggregatedData(SubSeq(rows, 1, Len(rows) - 1),
                                                 originalMap, ignoreRev),
                          rows[Len(rows)], originalMap, ignoreRev)

\* mutant: the exploded rows carry no target side
ExplodedRowWithoutTarget(originalRow, originalCode, exactMatch, originalMap) ==
    LET oQty == RowQuantity(originalRow, originalMap)
    IN  Result(RowCode(originalRow, originalMap),
               IF IsNum(oQty) THEN oQty
               ELSE StrQ(CellStr(originalRow, originalMap.quantity)),
               RowDescription(originalRow, originalMap),
               RowRevision(originalRow, originalMap),
               RowCategory(originalRow, originalMap),
               Null, NullQ, Null, Null, Null,
               IF ~IsNum(oQty) THEN INVALID_QUANTITY
               ELSE IF WithinTolerance(oQty, exactMatch.quantity)
                    THEN QUANTITY_EQUAL ELSE QUANTITY_DIFFERENT)

\* the "explode" of a group whose aggregate differs: one result per row,
\* each compared with the target aggregate
ExplodedRow(originalRow, originalCode, exactMatch, originalMap) ==
    LET oQty == RowQuantity(originalRow, originalMap)
    IN  Result(RowCode(originalRow, originalMap),
               IF IsNum(oQty) THEN oQty
               ELSE StrQ(CellStr(originalRow, originalMap.quantity)),
               RowDescription(originalRow, originalMap),
               RowRevision(originalRow, originalMap),
               RowCategory(originalRow, originalMap),
               originalCode, exactMatch.quantity, exactMatch.description,
               exactMatch.revision, exactMatch.category,
               IF ~IsNum(oQty) THEN INVALID_QUANTITY
               ELSE IF WithinTolerance(oQty, exactMatch.quantity)
                    THEN QUANTITY_EQUAL ELSE QUANTITY_DIFFERENT)

\* mutant: a differing group is one QUANTITY_DIFFERENT result, not exploded
AggregatedExactNotExploded(aggregatedInfo, originalCode, exactMatch, originalMap) ==
    <<Result(originalCode, aggregatedInfo.quantity, aggregatedInfo.description,
             aggregatedInfo.revision, aggregatedInfo.category,
             originalCode, exactMatch.quantity, exactMatch.description,
             exactMatch.revision, exactMatch.category,
             IF WithinTolerance(aggregatedInfo.quantity, exactMatch.quantity)
             THEN QUANTITY_EQUAL ELSE QUANTITY_DIFFERENT)>>

\* the exact-match branch of the aggregated walk
AggregatedExact(aggregatedInfo, originalCode, exactMatch, originalMap) ==
    IF WithinTolerance(aggregatedInfo.quantity, exactMatch.quantity)
    THEN <<Result(originalCode, aggregatedInfo.quantity, aggregatedInfo.description,
                  aggregatedInfo.revision, aggregatedInfo.category,
                  originalCode, exactMatch.quantity, exactMatch.description,
                  exactMatch.revision, exactMatch.category, QUANTITY_EQUAL)>>
    ELSE [i \in 1..Len(aggregatedInfo.rows) |->
             ExplodedRow(aggregatedInfo.rows[i], originalCode, exactMatch,
                         originalMap)]

\* validRows.reduce((sum, row) => sum + (normalizeQuantity(...) || 0), 0)
RECURSIVE SumQuantities(_, _)
SumQuantities(rows, map) ==
    IF rows = <<>> THEN Zero
    ELSE NumAdd(SumQuantities(SubSeq(rows, 1, Len(rows) - 1), map),
                LET q == RowQuantity(rows[Len(rows)], map)
                IN  IF IsNum(q) THEN q ELSE Zero)

\* mutant: an absent group is one ABSENT result with the group's quantity
AggregatedAbsentInOne(aggregatedInfo, originalCode, originalMap) ==
    <<Result(originalCode, aggregatedInfo.quantity, aggregatedInfo.description,
             aggregatedInfo.revision, aggregatedInfo.category,
             Null, NullQ, Null, Null, Null, ABSENT)>>

\* the ABSENT branch of the aggregated walk: the valid rows as one ABSENT
\* result, every invalid row as its own INVALID_QUANTITY result
AggregatedAbsent(aggregatedInfo, originalCode, originalMap) ==
    LET validRows   == SelectSeq(aggregatedInfo.rows,
                           LAMBDA r : IsNum(RowQuantity(r, originalMap)))
        invalidRows == SelectSeq(aggregatedInfo.rows,
                           LAMBDA r : ~IsNum(RowQuantity(r, originalMap)))
    IN  (IF Len(validRows) > 0
         THEN <<Result(originalCode, SumQuantities(validRows, originalMap),
                       aggregatedInfo.description, aggregatedInfo.revision,
                       aggregatedInfo.category,
                       Null, NullQ, Null, Null, Null, ABSENT)>>
         ELSE <<>>)
        \o [i \in 1..Len(invalidRows) |->
               Result(RowCode(invalidRows[i], originalMap),
                      StrQ(CellStr(invalidRows[i], originalMap.quantity)),
                      RowDescription(invalidRows[i], originalMap),
                      RowRevision(invalidRows[i], originalMap),
                      RowCategory(invalidRows[i], originalMap),
                      Null, NullQ, Null, Null, Null, INVALID_QUANTITY)]

\* the results of one iteration of for (const [key, aggregatedInfo] of ...)
AggregatedGroup(aggregatedInfo, pmd, pcr, originalMap, ignoreRev) ==
    LET key           == aggregatedInfo.key
        originalCode  == RowCode(aggregatedInfo.rows[1], originalMap)
        otherRevisions == otherRevisionsOf(pcr, originalCode, ignoreRev)
    IN  IF MapHas(pmd, key)
        THEN AggregatedExact(aggregatedInfo, originalCode, MapGet(pmd, key),
                             originalMap)
        ELSE IF Len(otherRevisions) > 0
        THEN <<Result(originalCode, aggregatedInfo.quantity,
                      aggregatedInfo.description, aggregatedInfo.revision,
                      aggregatedInfo.category,
                      originalCode, otherRevisions[1].quantity,
                      otherRevisions[1].description, otherRevisions[1].revision,
                      otherRevisions[1].category, REVISION_DIFFERENT)>>
        ELSE AggregatedAbsent(aggregatedInfo, originalCode, originalMap)

\* the keys one group adds to processedPartialKeysForMainLoop
AggregatedProcessed(aggregatedInfo, pmd, pcr, originalMap, ignoreRev) ==
    LET originalCode == RowCode(aggregatedInfo.rows[1], originalMap)
    IN  IF MapHas(pmd, aggregatedInfo.key) THEN {aggregatedInfo.key}
        ELSE RevisionKeys(otherRevisionsOf(pcr, originalCode, ignoreRev),
                          originalCode, ignoreRev)

RECURSIVE Concat(_)
Concat(seqs) == IF seqs = <<>> THEN <<>> ELSE Head(seqs) \o Concat(Tail(seqs))

\* the loop over originalAggregatedData.entries(): its results, and
\* processedPartialKeysForMainLoop after it
AggregatedLoop(oad, pmd, pcr, originalMap, ignoreRev) ==
    [results   |-> Concat([i \in 1..Len(oad) |->
                      AggregatedGroup(oad[i], pmd, pcr, originalMap, ignoreRev)]),
     processed |-> UNION {AggregatedProcessed(oad[i], pmd, pcr, originalMap,
                                              ignoreRev) : i \in 1..Len(oad)}]

AggregatedWalk(rows, pmd, pcr, originalMap, ignoreRev) ==
    The({AggregatedLoop(oad, pmd, pcr, originalMap, ignoreRev) :
            oad \in {originalAggregatedData(rows, originalMap, ignoreRev)}})

-----------------------------------------------------------------------------
(* Reconciler step 2, non-aggregated path *)

\* what one row is: skipped, invalid, an exact match, a revision fallback,
\* or absent (held back in absentItemsAggregator)
RowClass(originalRow, pmd, pcr, originalMap, ignoreRev) ==
    LET originalCode == RowCode(originalRow, originalMap)
    IN  IF originalCode = <<>> THEN "skip"
        ELSE IF ~IsNum(RowQuantity(originalRow, originalMap)) THEN "invalid"
        ELSE IF MapHas(pmd, RowKey(originalRow, originalMap, ignoreRev)) THEN "exact"
        ELSE IF Len(otherRevisionsOf(pcr, originalCode, ignoreRev)) > 0
             THEN "revision"
        ELSE "absent"

\* the result pushed while visiting one row (none for a skipped or absent row)
RowResults(originalRow, pmd, pcr, originalMap, ignoreRev) ==
    LET originalCode        == RowCode(originalRow, originalMap)
        originalQuantity    == RowQuantity(originalRow, originalMap)
        originalDescription == RowDescription(originalRow, originalMap)
        originalRevision    == RowRevision(originalRow, originalMap)
        originalCategory    == RowCategory(originalRow, originalMap)
        key                 == getKey(originalCode, originalRevision, ignoreRev)
        class               == RowClass(originalRow, pmd, pcr, originalMap, ignoreRev)
    IN  CASE class = "invalid" ->
               <<Result(originalCode,
                        StrQ(CellStr(originalRow, originalMap.quantity)),
                        originalDescription, originalRevision, originalCategory,
                        Null, NullQ, Null, Null, Null, INVALID_QUANTITY)>>
          [] class = "exact" ->
               LET exactMatch == MapGet(pmd, key)
               IN  <<Result(originalCode, originalQuantity, originalDescription,
                            originalRevision, originalCategory,
                            originalCode, exactMatch.quantity,
                            exactMatch.description, exactMatch.revision,
                            exactMatch.category,
                            IF WithinTolerance(originalQuantity, exactMatch.quantity)
                            THEN QUANTITY_EQUAL ELSE QUANTITY_DIFFERENT)>>
          [] class = "revision" ->
               LET firstOtherRevision ==
                       otherRevisionsOf(pcr, originalCode, ignoreRev)[1]
               IN  <<Result(originalCode, originalQuantity, originalDescription,
                            originalRevision, originalCategory,
                            originalCode, firstOtherRevision.quantity,
                            firstOtherRevision.description,
                            firstOtherRevision.revision,
                            firstOtherRevision.category, REVISION_DIFFERENT)>>
          [] OTHER -> <<>>

\* the keys one row adds to processedPartialKeysForMainLoop
RowProcessed(originalRow, pmd, pcr, originalMap, ignoreRev) ==
    LET originalCode == RowCode(originalRow, originalMap)
        class        == RowClass(originalRow, pmd, pcr, originalMap, ignoreRev)
    IN  CASE class = "exact" -> {RowKey(originalRow, originalMap, ignoreRev)}
          [] class = "revision" ->
               RevisionKeys(otherRevisionsOf(pcr, originalCode, ignoreRev),
                            originalCode, ignoreRev)
          [] OTHER -> {}

\* mutant: a later row of a key adds nothing to the entry of the key
AbsentAddFirstOnly(agg, originalRow, pmd, pcr, originalMap, ignoreRev) ==
    LET key == RowKey(originalRow, originalMap, ignoreRev)
    IN  IF RowClass(originalRow, pmd, pcr, originalMap, ignoreRev) = "absent"
           /\ ~MapHas(agg, key)
        THEN Append(agg, [key |-> key,
                          quantity |-> RowQuantity(originalRow, originalMap),
                          firstRow |-> originalRow])
        ELSE agg

\* absentItemsAggregator after one more row
AbsentAdd(agg, originalRow, pmd, pcr, originalMap, ignoreRev) ==
    LET key == RowKey(originalRow, originalMap, ignoreRev)
    IN  IF RowClass(originalRow, pmd, pcr, originalMap, ignoreRev) = "absent"
        THEN IF MapHas(agg, key)
             THEN [agg EXCEPT ![MapIndex(agg, key)].quantity =
                                  NumAdd(@, RowQuantity(originalRow, originalMap))]
             ELSE Append(agg, [key |-> key,
                               quantity |-> RowQuantity(originalRow, originalMap),
                               firstRow |-> originalRow])
        ELSE agg

RECURSIVE absentItemsAggregator(_, _, _, _, _)
absentItemsAggregator(rows, pmd, pcr, originalMap, ignoreRev) ==
    IF rows = <<>> THEN <<>>
    ELSE AbsentAdd(absentItemsAggregator(SubSeq(rows, 1, Len(rows) - 1), pmd, pcr,
                                         originalMap, ignoreRev),
                   rows[Len(rows)], pmd, pcr, originalMap, ignoreRev)

\* mutant: the flushed ABSENT result repeats the code on the target side
AbsentResultWithTarget(aggregatedInfo, originalMap) ==
    Result(RowCode(aggregatedInfo.firstRow, originalMap), aggregatedInfo.quantity,
           RowDescription(aggregatedInfo.firstRow, originalMap),
           RowRevision(aggregatedInfo.firstRow, originalMap),
           RowCategory(aggregatedInfo.firstRow, originalMap),
           RowCode(aggregatedInfo.firstRow, originalMap), NullQ, Null, Null, Null,
           ABSENT)

\* the flush of absentItemsAggregator after the main loop
AbsentResult(aggregatedInfo, originalMap) ==
    Result(RowCode(aggregatedInfo.firstRow, originalMap), aggregatedInfo.quantity,
           RowDescription(aggregatedInfo.firstRow, originalMap),
           RowRevision(aggregatedInfo.firstRow, originalMap),
           RowCategory(aggregatedInfo.firstRow, originalMap),
           Null, NullQ, Null, Null, Null, ABSENT)

\* the flush: one ABSENT result per entry of absentItemsAggregator
AbsentResults(absent, originalMap) ==
    [i \in 1..Len(absent) |-> AbsentResult(absent[i], originalMap)]

RowWalk(rows, pmd, pcr, originalMap, ignoreRev) ==
    [results   |-> Concat([i \in 1..Len(rows) |->
                       RowResults(rows[i], pmd, pcr, originalMap, ignoreRev)])
                   \o The({AbsentResults(absent, originalMap) :
                              absent \in {absentItemsAggregator(rows, pmd, pcr,
                                                                originalMap,
                                                                ignoreRev)}}),
     processed |-> UNION {RowProcessed(rows[i], pmd, pcr, originalMap, ignoreRev) :
                             i \in 1..Len(rows)}]

-----------------------------------------------------------------------------
(* Reconciler steps 3 and 4: the target-only absences *)

\* originalAggregatedForCheck: the first {code, revision} seen per key
RECURSIVE originalAggregatedForCheck(_, _, _)
originalAggregatedForCheck(rows, originalMap, ignoreRev) ==
    IF rows = <<>> THEN <<>>
    ELSE LET before == originalAggregatedForCheck(SubSeq(rows, 1, Len(rows) - 1),
                                                  originalMap, ignoreRev)
             row    == rows[Len(rows)]
             key    == RowKey(row, originalMap, ignoreRev)
         IN  IF RowCode(row, originalMap) # <<>> /\ ~MapHas(before, key)
             THEN Append(before, [key |-> key, code |-> RowCode(row, originalMap),
                                  revision |-> RowRevision(row, originalMap)])
             ELSE before

\* mutant: a source key marks its own key only, never the other revisions
DefinitiveKeysOfExactOnly(data, pmd, pcr, ignoreRev) ==
    IF MapHas(pmd, data.key) THEN {data.key} ELSE {}

\* the keys one source key marks in definitiveProcessedPartialKeys
DefinitiveKeysOf(data, pmd, pcr, ignoreRev) ==
    IF MapHas(pmd, data.key) THEN {data.key}
    ELSE RevisionKeys(otherRevisionsOf(pcr, data.code, ignoreRev), data.code,
                      ignoreRev)

\* mutant: step 4 reads the set the main loop filled
MainLoopProcessedKeys(rows, walk, pmd, pcr, originalMap, ignoreRev) == walk.processed

\* (walk, the outcome of step 2, is not read: the set is rebuilt from the rows)
definitiveProcessedPartialKeys(rows, walk, pmd, pcr, originalMap, ignoreRev) ==
    LET check == originalAggregatedForCheck(rows, originalMap, ignoreRev)
    IN  UNION {DefinitiveKeysOf(check[i], pmd, pcr, ignoreRev) : i \in 1..Len(check)}

AbsentInOriginalResult(data) ==
    Result(Null, NullQ, Null, Null, Null,
           BeforeSep(data.key), data.quantity, data.description, data.revision,
           data.category, ABSENT_IN_ORIGINAL)

resultsFromPartial(pmd, processedKeys) ==
    LET unprocessed == SelectSeq(pmd, LAMBDA data : data.key \notin processedKeys)
    IN  [i \in 1..Len(unprocessed) |-> AbsentInOriginalResult(unprocessed[i])]

-----------------------------------------------------------------------------
(* Reconciler *)

MissingMapping == "Mappatura colonne obbligatorie mancante."

\* mutant: only the source side's mandatory columns are checked
MappingMissingOriginalOnly(maps) ==
    maps.original.code = NoColumn \/ maps.original.quantity = NoColumn

\* the mandatory-column check at the top of compareData
MappingMissing(maps) ==
    \/ maps.original.code = NoColumn \/ maps.original.quantity = NoColumn
    \/ maps.partial.code = NoColumn \/ maps.partial.quantity = NoColumn

\* the rows visited by the three loops over the tables
RowsVisited(original, partial) == Len(partial.data) + 2 * Len(original.data)

\* mutant: the target-only absences are put before the source walk's results
ReconcileTargetFirst(original, pmd, pcr, maps, aggregate, ignoreRev) ==
    The({resultsFromPartial(pmd,
                definitiveProcessedPartialKeys(original.data, walk, pmd, pcr,
                                               maps.original, ignoreRev))
         \o walk.results :
         walk \in {IF aggregate
                   THEN AggregatedWalk(original.data, pmd, pcr, maps.original,
                                       ignoreRev)
                   ELSE RowWalk(original.data, pmd, pcr, maps.original, ignoreRev)}})

\* steps 2 to 5 of compareData, given the target index of step 1
Reconcile(original, pmd, pcr, maps, aggregate, ignoreRev) ==
    The({walk.results
         \o resultsFromPartial(pmd,
                definitiveProcessedPartialKeys(original.data, walk, pmd, pcr,
                                               maps.original, ignoreRev)) :
         walk \in {IF aggregate
                   THEN AggregatedWalk(original.data, pmd, pcr, maps.original,
                                       ignoreRev)
                   ELSE RowWalk(original.data, pmd, pcr, maps.original, ignoreRev)}})

\* compareData: thrown with the message, or the result list; rowsRead is
\* the number of loop iterations over table rows made before returning
compareData(original, partial, maps, aggregate, ignoreRev) ==
    IF MappingMissing(maps)
    THEN [thrown |-> TRUE, message |-> MissingMapping, results |-> <<>>,
          rowsRead |-> 0]
    ELSE [thrown |-> FALSE, message |-> "",
          results |->
              The({Reconcile(original, pmd, pcr, maps, aggregate, ignoreRev) :
                     pmd \in {partialMapData(partial.data, maps.partial, ignoreRev)},
                     pcr \in {partialCodeToRevisions(partial.data, maps.partial,
                                                     ignoreRev)}}),
          rowsRead |-> RowsVisited(original, partial)]

-----------------------------------------------------------------------------
(* Inputs *)

Headers == <<"code", "qty", "desc", "rev", "cat">>

Row(code, qty, desc, rev, cat) ==
    [code |-> StrQ(code), qty |-> qty, desc |-> StrQ(desc), rev |-> StrQ(rev),
     cat |-> StrQ(cat)]

ParsedFile(rows) == [headers |-> Headers, data |-> rows]

\* source rows: two rows of one key (3.0000005 and 4), an unparseable
\* quantity under that key, a quantity exactly 1e-6 away from 100, no code
SourceRows ==
   << Row(<<"A">>, StrQ(<<"3",",","0","0","0","0","0","0","5">>),
          <<"a">>, <<"1">>, <<"c">>),
      Row(<<"A">>, StrQ(<<"4">>), <<"b">>, <<"1">>, <<"d">>),
      Row(<<"A">>, StrQ(<<"x">>), <<"x">>, <<"1">>, <<>>),
      Row(<<"B">>, StrQ(<<"1","0","0",",","0","0","0","0","0","1">>),
          <<"b">>, <<>>, <<>>),
      Row(<<>>, StrQ(<<"5">>), <<"a">>, <<"1">>, <<"c">>) >>

\* target rows: one key twice (7 and 3), two more revisions of the code,
\* another code, an unparseable quantity, no code
TargetRows ==
   << Row(<<"A">>, StrQ(<<"7">>), <<"p">>, <<"1">>, <<"c">>),
      Row(<<"A">>, StrQ(<<"3">>), <<"q">>, <<"1">>, <<"d">>),
      Row(<<"A">>, StrQ(<<"1","0","0">>), <<"r">>, <<"2">>, <<"c">>),
      Row(<<"A">>, NumQ(5, 0), <<"s">>, <<"3">>, <<"d">>),
      Row(<<"B">>, StrQ(<<"1","0","0">>), <<"p">>, <<>>, <<>>),
      Row(<<"B">>, StrQ(<<>>), <<"q">>, <<>>, <<"c">>),
      Row(<<>>, StrQ(<<"7">>), <<"r">>, <<"1">>, <<>>) >>

\* the rows of a sheet at the positions of a set, in the sheet's order
RowsAt(sheet, positions) ==
    [i \in 1..Cardinality(positions) |->
        sheet[CHOOSE k \in positions : Cardinality({m \in positions : m <= k}) = i]]

BottomUp(sheet) == [i \in 1..Len(sheet) |-> sheet[Len(sheet) + 1 - i]]

\* the tables of at most maxRows rows of a sheet, in the sheet's order
TopDownTablesOf(sheet, maxRows) ==
    { RowsAt(sheet, positions) :
          positions \in {p \in SUBSET (1..Len(sheet)) : Cardinality(p) <= maxRows} }

\* the same, read top-down or bottom-up
TablesOf(sheet, maxRows) ==
    TopDownTablesOf(sheet, maxRows) \cup TopDownTablesOf(BottomUp(sheet), maxRows)

Mapping(code, quantity, description, revision, category) ==
    [code |-> code, quantity |-> quantity, description |-> description,
     revision |-> revision, category |-> category]

FullMapping == Mapping("code", "qty", "desc", "rev", "cat")
\* INITIAL_MAPPINGS with only the mandatory roles chosen
BareMapping == Mapping("code", "qty", NoColumn, NoColumn, NoColumn)

MappingsChoices ==
    { [original |-> FullMapping, partial |-> FullMapping],
      [original |-> BareMapping, partial |-> BareMapping],
      [original |-> FullMapping, partial |-> BareMapping],
      [original |-> [FullMapping EXCEPT !.code = NoColumn], partial |-> FullMapping],
      [original |-> [FullMapping EXCEPT !.quantity = NoColumn], partial |-> FullMapping],
      [original |-> FullMapping, partial |-> [BareMapping EXCEPT !.code = NoColumn]],
      [original |-> FullMapping, partial |-> [FullMapping EXCEPT !.quantity = NoColumn]] }

-----------------------------------------------------------------------------
(* The calls *)

NotRun == [t |-> "notrun"]
NoResults == [t |-> "null"]
ResultList(list) == [t |-> "list", list |-> list]
NoError == ""
NoTable == [t |-> "null"]

NormalizerIdle == qCell = StrQ(<<>>) /\ qNum = NotRun /\ qPrev = NotRun
ApplicatorIdle == rules = <<>> /\ transformed = NoTable
InterpreterIdle == rulesSheet = <<>> /\ rulesParsed = FALSE

\* compareData(originalData, partialData, mappings, aggregate, {ignoreRevision}):
\* the list it returns, or the message of the error it throws
Compare(aggregate) ==
    LET r == compareData(originalData, partialData, mappings, aggregate,
                         ignoreRevision)
    IN  /\ results = NoResults /\ error = NoError
        /\ IF r.thrown
           THEN /\ error' = r.message
                /\ UNCHANGED <<results, aggregateCodes>>
           ELSE /\ results' = ResultList(r.results)
                /\ aggregateCodes' = aggregate
                /\ error' = NoError
        /\ rowsRead' = r.rowsRead
        /\ UNCHANGED <<qCell, qNum, qPrev, originalData, partialData, mappings,
                       rules, ignoreRevision, transformed,
                       rulesSheet, rulesParsed>>

\* the ignoreRevision option is changed before the comparison is run
SetIgnoreRevision ==
    /\ results = NoResults /\ error = NoError
    /\ ignoreRevision' = ~ignoreRevision
    /\ UNCHANGED <<qCell, qNum, qPrev, originalData, partialData, mappings, rules,
                   aggregateCodes, results, error, rowsRead, transformed,
                   rulesSheet, rulesParsed>>

Init ==
    /\ NormalizerIdle /\ ApplicatorIdle /\ InterpreterIdle
    /\ originalData \in {ParsedFile(t) : t \in TopDownTablesOf(SourceRows, MaxRows)}
    /\ partialData \in {ParsedFile(t) : t \in TablesOf(TargetRows, MaxRows)}
    /\ mappings \in MappingsChoices
    /\ aggregateCodes = FALSE
    /\ ignoreRevision = TRUE
    /\ results = NoResults
    /\ error = NoError
    /\ rowsRead = 0

Next ==
    \/ \E aggregate \in BOOLEAN : Compare(aggregate)
    \/ SetIgnoreRevision

Spec == Init /\ [][Next]_vars

-----------------------------------------------------------------------------
(* Properties of compareData *)

HasResults == results.t = "list"
Called == HasResults \/ error # NoError
ResultsOf(status) == SelectSeq(results.list, LAMBDA r : r.status = status)
HasStatus(status) == \E i \in 1..Len(results.list) : results.list[i].status = status

\* C1: compare fails with the missing-mapping error, before reading any row
\* and without any result list, whenever the code or quantity role of either
\* side is unmapped.
C1_MissingMappingFails ==
    (/\ Called
     /\ \E side \in {mappings.original, mappings.partial} :
            side.code = NoColumn \/ side.quantity = NoColumn)
    => (error = MissingMapping /\ results = NoResults /\ rowsRead = 0)

C1_Witness ==
    /\ error = MissingMapping
    /\ mappings.partial.quantity = NoColumn
    /\ Len(originalData.data) > 0 /\ Len(partialData.data) > 0
    /\ ~ignoreRevision

\* C2: the ABSENT_IN_ORIGINAL results (keys, quantities, order) are the same
\* with aggregate = true as with aggregate = false.
C2_AbsentInOriginalSameInBothModes ==
    HasResults =>
        ResultsOf(ABSENT_IN_ORIGINAL) =
            SelectSeq(compareData(originalData, partialData, mappings,
                                  ~aggregateCodes, ignoreRevision).results,
                      LAMBDA r : r.status = ABSENT_IN_ORIGINAL)

\* a run whose two modes differ in the source walk (an unparseable source
\* quantity under a key the target has) and that reports a target-only key
C2_Witness ==
    /\ HasResults /\ aggregateCodes
    /\ HasStatus(ABSENT_IN_ORIGINAL)
    /\ \E i \in 1..Len(results.list) :
           /\ results.list[i].status = INVALID_QUANTITY
           /\ results.list[i].partialCode # Null

\* C4: an ABSENT result has every target field null, an ABSENT_IN_ORIGINAL
\* result has every source field null.
C4_AbsentSidesAreNull ==
    HasResults =>
        \A i \in 1..Len(results.list) :
            LET r == results.list[i]
            IN  /\ r.status = ABSENT =>
                       /\ r.partialCode = Null /\ r.partialQuantity = NullQ
                       /\ r.partialDescription = Null /\ r.partialRevision = Null
                       /\ r.partialCategory = Null
                /\ r.status = ABSENT_IN_ORIGINAL =>
                       /\ r.originalCode = Null /\ r.originalQuantity = NullQ
                       /\ r.originalDescription = Null /\ r.originalRevision = Null
                       /\ r.originalCategory = Null

C4_Witness ==
    /\ HasResults /\ ~aggregateCodes /\ ~ignoreRevision
    /\ HasStatus(ABSENT) /\ HasStatus(ABSENT_IN_ORIGINAL)

\* |a - b| < 10^-6, on the decimals themselves
Below1e6(a, b) ==
    /\ a.hi - b.hi \in {-1, 0, 1}
    /\ LET d == (a.hi - b.hi) * Unit + (a.lo - b.lo)
       IN  d < Pow10(FracDigits - 6) /\ 0 - d < Pow10(FracDigits - 6)

Exactly1e6(a, b) ==
    /\ a.hi - b.hi \in {-1, 0, 1}
    /\ LET d == (a.hi - b.hi) * Unit + (a.lo - b.lo)
       IN  d = Pow10(FracDigits - 6) \/ 0 - d = Pow10(FracDigits - 6)

\* a result that compares a source quantity with the target quantity of the
\* exactly matching key
IsComparison(r) ==
    /\ r.status \notin {REVISION_DIFFERENT, ABSENT_IN_ORIGINAL}
    /\ r.partialCode # Null
    /\ IsNum(r.originalQuantity)

SourceRowsWithCode ==
    SelectSeq(originalData.data, LAMBDA row : RowCode(row, mappings.original) # <<>>)
ValidTargetRows ==
    SelectSeq(partialData.data,
              LAMBDA row : /\ RowCode(row, mappings.partial) # <<>>
                           /\ IsNum(RowQuantity(row, mappings.partial)))

\* the key a result carries on its source side and on its target side
SourceKeyOf(r) == getKey(r.originalCode, r.originalRevision, ignoreRevision)
TargetKeyOf(r) == getKey(r.partialCode, r.partialRevision, ignoreRevision)

SourceRowReported(row) ==
    \E i \in 1..Len(results.list) :
        /\ results.list[i].originalCode # Null
        /\ SourceKeyOf(results.list[i]) = RowKey(row, mappings.original, ignoreRevision)
TargetRowReported(row) ==
    \E i \in 1..Len(results.list) :
        /\ results.list[i].partialCode # Null
        /\ TargetKeyOf(results.list[i]) = RowKey(row, mappings.partial, ignoreRevision)

\* C3: completeness: every source row with a non-empty code and every target
\* row with a non-empty code and a parseable quantity appears in an emitted
\* result (the claim says in exactly one; stated here is that it appears in
\* one at all, which the claim implies).
C3_EveryRowIsReported ==
    HasResults =>
        /\ \A i \in 1..Len(SourceRowsWithCode) : SourceRowReported(SourceRowsWithCode[i])
        /\ \A i \in 1..Len(ValidTargetRows) : TargetRowReported(ValidTargetRows[i])

\* the source half of C3 alone
SourceRowsAreReported ==
    HasResults =>
        \A i \in 1..Len(SourceRowsWithCode) : SourceRowReported(SourceRowsWithCode[i])

-----------------------------------------------------------------------------
(* Properties of the revision fallback *)

\* the rows of a table with a given key, the target rows of a given code
SourceRowsOfKey(key) ==
    SelectSeq(SourceRowsWithCode,
              LAMBDA row : RowKey(row, mappings.original, ignoreRevision) = key)
TargetRowsOfKey(key) ==
    SelectSeq(ValidTargetRows,
              LAMBDA row : RowKey(row, mappings.partial, ignoreRevision) = key)
TargetRowsOfCode(code) ==
    SelectSeq(ValidTargetRows, LAMBDA row : RowCode(row, mappings.partial) = code)

\* a sum of parsed quantities, an unparseable one counting as nothing
RECURSIVE TotalOf(_, _)
TotalOf(rows, map) ==
    IF rows = <<>> THEN Zero
    ELSE LET q == RowQuantity(Head(rows), map)
         IN  NumAdd(IF IsNum(q) THEN q ELSE Zero, TotalOf(Tail(rows), map))

\* the source keys whose revision fallback applies: no valid target row has
\* the key, some valid target row has the code
FallbackKeys ==
    { RowKey(SourceRowsWithCode[i], mappings.original, ignoreRevision) :
        i \in { j \in 1..Len(SourceRowsWithCode) :
                  LET row == SourceRowsWithCode[j]
                  IN  /\ TargetRowsOfKey(RowKey(row, mappings.original,
                                                ignoreRevision)) = <<>>
                      /\ TargetRowsOfCode(RowCode(row, mappings.original)) # <<>> } }

SourceResultsOfKey(key) ==
    SelectSeq(results.list,
              LAMBDA r : r.originalCode # Null /\ SourceKeyOf(r) = key)

\* r has the target fields of the first-seen revision of its code: the
\* first valid target row of the code, with the quantity of all the valid
\* target rows of that code and revision
HasFirstSeenRevision(r) ==
    LET first == TargetRowsOfCode(r.originalCode)[1]
        same  == SelectSeq(TargetRowsOfCode(r.originalCode),
                     LAMBDA row : RowRevision(row, mappings.partial) =
                                  RowRevision(first, mappings.partial))
    IN  /\ r.partialCode = r.originalCode
        /\ r.partialRevision = RowRevision(first, mappings.partial)
        /\ r.partialDescription = RowDescription(first, mappings.partial)
        /\ r.partialCategory = RowCategory(first, mappings.partial)
        /\ r.partialQuantity = TotalOf(same, mappings.partial)

NoAbsentInOriginalOf(key) ==
    \A i \in 1..Len(results.list) :
        results.list[i].status = ABSENT_IN_ORIGINAL =>
            results.list[i].partialCode # BeforeSep(key)

\* C8 as stated: with ignoreRevision = false, a source key without an exact
\* match whose code has a target revision entry is emitted as
\* REVISION_DIFFERENT with the target fields of the first-seen revision
\* entry, and no target key of that code is ABSENT_IN_ORIGINAL.
C8_FallbackIsRevisionDifferent ==
    (HasResults /\ ~ignoreRevision) =>
        \A key \in FallbackKeys :
            /\ SourceResultsOfKey(key) # <<>>
            /\ \A i \in 1..Len(SourceResultsOfKey(key)) :
                   /\ SourceResultsOfKey(key)[i].status = REVISION_DIFFERENT
                   /\ HasFirstSeenRevision(SourceResultsOfKey(key)[i])
            /\ NoAbsentInOriginalOf(key)

\* C8, amended: as above for the group of the key in aggregated mode (one
\* result, the summed quantity) and for each row with a parseable quantity
\* in non-aggregated mode (one result per row, in row order); a row with an
\* unparseable quantity in non-aggregated mode is INVALID_QUANTITY with null
\* target fields.  No target key of the code is ABSENT_IN_ORIGINAL.
C8_FallbackUnlessInvalid ==
    (HasResults /\ ~ignoreRevision) =>
        \A key \in FallbackKeys :
            LET rows == SourceRowsOfKey(key)
                rs   == SourceResultsOfKey(key)
            IN  /\ NoAbsentInOriginalOf(key)
                /\ IF aggregateCodes
                   THEN /\ Len(rs) = 1
                        /\ rs[1].status = REVISION_DIFFERENT
                        /\ rs[1].originalQuantity = TotalOf(rows, mappings.original)
                        /\ HasFirstSeenRevision(rs[1])
                   ELSE /\ Len(rs) = Len(rows)
                        /\ \A i \in 1..Len(rows) :
                               LET q == RowQuantity(rows[i], mappings.original)
                               IN  IF IsNum(q)
                                   THEN /\ rs[i].status = REVISION_DIFFERENT
                                        /\ rs[i].originalQuantity = q
                                        /\ HasFirstSeenRevision(rs[i])
                                   ELSE /\ rs[i].status = INVALID_QUANTITY
                                        /\ rs[i].partialCode = Null
                                        /\ rs[i].partialQuantity = NullQ

\* a fallback against a code with two target revisions, next to a row of the
\* same key whose quantity is unparseable
C8_Witness ==
    /\ HasResults /\ ~ignoreRevision /\ ~aggregateCodes
    /\ \E key \in FallbackKeys :
           /\ Len(SourceResultsOfKey(key)) = 2
           /\ \E i, j \in 1..2 :
                  /\ SourceResultsOfKey(key)[i].status = REVISION_DIFFERENT
                  /\ SourceResultsOfKey(key)[j].status = INVALID_QUANTITY
    /\ Len(ValidTargetRows) = 2
    /\ RowRevision(ValidTargetRows[1], mappings.partial)
           # RowRevision(ValidTargetRows[2], mappings.partial)

-----------------------------------------------------------------------------
(* Properties of the aggregated exact match *)

\* the source keys with an exact match in the target index, in the order of
\* their first row
ExactKeys ==
    { RowKey(SourceRowsWithCode[i], mappings.original, ignoreRevision) :
        i \in { j \in 1..Len(SourceRowsWithCode) :
                  TargetRowsOfKey(RowKey(SourceRowsWithCode[j], mappings.original,
                                         ignoreRevision)) # <<>> } }

\* what the comparison of one source row with a target quantity gives
RowVerdict(row, target) ==
    LET q == RowQuantity(row, mappings.original)
    IN  IF ~IsNum(q) THEN INVALID_QUANTITY
        ELSE IF Below1e6(q, target) THEN QUANTITY_EQUAL ELSE QUANTITY_DIFFERENT

\* C9: in aggregated mode a source key with an exact target match gives one
\* QUANTITY_EQUAL result with the summed source quantity when the sums agree
\* within the tolerance, and otherwise one result per source row of the key,
\* in row order, each compared with the same target aggregate quantity
\* (QUANTITY_EQUAL, QUANTITY_DIFFERENT, or INVALID_QUANTITY for a row whose
\* own quantity is unparseable).
C9_AggregatedExactMatch ==
    (HasResults /\ aggregateCodes) =>
        \A key \in ExactKeys :
            LET rows   == SourceRowsOfKey(key)
                rs     == SourceResultsOfKey(key)
                source == TotalOf(rows, mappings.original)
                target == TotalOf(TargetRowsOfKey(key), mappings.partial)
            IN  IF Below1e6(source, target)
                THEN /\ Len(rs) = 1
                     /\ rs[1].status = QUANTITY_EQUAL
                     /\ rs[1].originalQuantity = source
                     /\ rs[1].partialQuantity = target
                ELSE /\ Len(rs) = Len(rows)
                     /\ \A i \in 1..Len(rows) :
                            /\ rs[i].status = RowVerdict(rows[i], target)
                            /\ rs[i].partialQuantity = target
                            /\ rs[i].originalDescription =
                                   RowDescription(rows[i], mappings.original)
                            /\ IsNum(RowQuantity(rows[i], mappings.original)) =>
                                   rs[i].originalQuantity =
                                       RowQuantity(rows[i], mappings.original)

\* a group of two rows whose sum differs from the target aggregate, exploded
\* into two results with different verdicts
C9_Witness ==
    /\ HasResults /\ aggregateCodes
    /\ \E key \in ExactKeys :
           /\ Len(SourceRowsOfKey(key)) = 2
           /\ Len(SourceResultsOfKey(key)) = 2
           /\ SourceResultsOfKey(key)[1].status # SourceResultsOfKey(key)[2].status
           /\ SourceResultsOfKey(key)[1].partialQuantity =
                  SourceResultsOfKey(key)[2].partialQuantity

\* a group of two rows whose sum agrees with the target aggregate
AggregatedEqualReached ==
    /\ HasResults /\ aggregateCodes
    /\ \E key \in ExactKeys :
           /\ Len(SourceRowsOfKey(key)) = 2
           /\ Len(SourceResultsOfKey(key)) = 1

-----------------------------------------------------------------------------
(* Properties of the result list's order *)

\* C11: in every result list the results of the source walk come before
\* all ABSENT_IN_ORIGINAL results: no ABSENT_IN_ORIGINAL result is followed
\* by a result of another status.
C11_SourceWalkFirst ==
    HasResults =>
        \A i, j \in 1..Len(results.list) :
            (i < j /\ results.list[i].status = ABSENT_IN_ORIGINAL)
                => results.list[j].status = ABSENT_IN_ORIGINAL

\* a list with two source-walk results of different statuses, the second
\* one flushed after the row loop, and a target-only absence after them
C11_Witness ==
    /\ HasResults /\ ~aggregateCodes
    /\ Len(results.list) = 3
    /\ results.list[1].status \in {QUANTITY_EQUAL, QUANTITY_DIFFERENT}
    /\ results.list[2].status = ABSENT
    /\ results.list[3].status = ABSENT_IN_ORIGINAL

-----------------------------------------------------------------------------
(* Properties of the target index *)

\* the target rows that are not indexed
UnindexedTargetRows ==
    SelectSeq(partialData.data,
              LAMBDA row : \/ RowCode(row, mappings.partial) = <<>>
                           \/ ~IsNum(RowQuantity(row, mappings.partial)))

\* C12: a target row with an empty code or an unparseable quantity never
\* contributes to a result: the list is the one compare returns for the
\* target table without those rows, and every ABSENT_IN_ORIGINAL result
\* carries the key of a target row with a code and a parseable quantity.
C12_UnindexedTargetRowsAreIgnored ==
    HasResults =>
        /\ results.list =
               compareData(originalData, [partialData EXCEPT !.data = ValidTargetRows],
                           mappings, aggregateCodes, ignoreRevision).results
        /\ \A i \in 1..Len(results.list) :
               results.list[i].status = ABSENT_IN_ORIGINAL =>
                   \E j \in 1..Len(ValidTargetRows) :
                       RowKey(ValidTargetRows[j], mappings.partial, ignoreRevision)
                           = TargetKeyOf(results.list[i])

\* a target table of a row without a code and a row with an unparseable
\* quantity, whose code the source has: that code is reported ABSENT
C12_Witness ==
    /\ HasResults
    /\ Len(partialData.data) = 2 /\ Len(UnindexedTargetRows) = 2
    /\ \E i, j \in 1..2 :
           /\ RowCode(partialData.data[i], mappings.partial) = <<>>
           /\ IsNum(RowQuantity(partialData.data[i], mappings.partial))
           /\ RowCode(partialData.data[j], mappings.partial) # <<>>
           /\ \E k \in 1..Len(results.list) :
                  /\ results.list[k].status = ABSENT
                  /\ results.list[k].originalCode =
                         RowCode(partialData.data[j], mappings.partial)

-----------------------------------------------------------------------------
(* Properties of the entries of the target index *)

\* the index built from the target table
TargetIndex == partialMapData(partialData.data, mappings.partial, ignoreRevision)

\* the four values are those of the key among the rows: the sum of the
\* quantities of its rows, the description, revision and category of the
\* first of them
IsEntryOf(valid, key, quantity, description, revision, category) ==
    LET rows == SelectSeq(valid, LAMBDA row :
                    RowKey(row, mappings.partial, ignoreRevision) = key)
    IN  /\ rows # <<>>
        /\ quantity = TotalOf(rows, mappings.partial)
        /\ description = RowDescription(rows[1], mappings.partial)
        /\ revision = RowRevision(rows[1], mappings.partial)
        /\ category = RowCategory(rows[1], mappings.partial)

\* a result whose target side is the entry of a key
CarriesEntry(r) == r.partialCode # Null /\ r.status # REVISION_DIFFERENT

\* C20: the target index holds, for every key of the target rows with a
\* non-empty code and a parseable quantity, the sum of the quantities of
\* all such rows of the key, with the description, revision and category of
\* the first such row; every match compares the source quantity against
\* this summed quantity, not against a single target row.
C20_IndexSumsPerKey ==
    HasResults =>
        \A index \in {TargetIndex}, valid \in {ValidTargetRows} :
            /\ {index[i].key : i \in 1..Len(index)}
                   = {RowKey(valid[i], mappings.partial, ignoreRevision) :
                         i \in 1..Len(valid)}
            /\ \A i, j \in 1..Len(index) : index[i].key = index[j].key => i = j
            /\ \A i \in 1..Len(index) :
                   IsEntryOf(valid, index[i].key, index[i].quantity,
                             index[i].description, index[i].revision,
                             index[i].category)
            /\ \A i \in 1..Len(results.list) :
                   LET r == results.list[i]
                   IN  /\ CarriesEntry(r) =>
                              IsEntryOf(valid, TargetKeyOf(r), r.partialQuantity,
                                        r.partialDescription, r.partialRevision,
                                        r.partialCategory)
                       /\ IsComparison(r) =>
                              /\ SourceKeyOf(r) = TargetKeyOf(r)
                              /\ r.status = QUANTITY_EQUAL
                                     <=> Below1e6(r.originalQuantity, r.partialQuantity)

\* the target rows A = "7" and A = "3" of one key, in this order, and the
\* source row A = "3,0000005": the quantity 10 with the description of the
\* first target row, QUANTITY_DIFFERENT although the second target row is
\* less than 1e-6 away from the source quantity
C20_Witness ==
    /\ HasResults /\ ~aggregateCodes
    /\ mappings.partial.description # NoColumn
    /\ Len(partialData.data) = 2 /\ Len(TargetIndex) = 1
    /\ RowQuantity(partialData.data[1], mappings.partial) = NumQ(7, 0)
    /\ RowQuantity(partialData.data[2], mappings.partial) = NumQ(3, 0)
    /\ RowDescription(partialData.data[1], mappings.partial)
           # RowDescription(partialData.data[2], mappings.partial)
    /\ \E i \in 1..Len(results.list) :
           LET r == results.list[i]
           IN  /\ r.status = QUANTITY_DIFFERENT
               /\ r.partialQuantity = NumQ(10, 0)
               /\ r.partialDescription
                      = RowDescription(partialData.data[1], mappings.partial)
               /\ Below1e6(r.originalQuantity, NumQ(3, 0))

\* the same target rows in the other order: the description of the row "3"
OtherFirstTargetRowReached ==
    /\ HasResults
    /\ mappings.partial.description # NoColumn
    /\ Len(partialData.data) = 2 /\ Len(TargetIndex) = 1
    /\ RowQuantity(partialData.data[1], mappings.partial) = NumQ(3, 0)
    /\ RowQuantity(partialData.data[2], mappings.partial) = NumQ(7, 0)
    /\ \E i \in 1..Len(results.list) :
           /\ results.list[i].partialQuantity = NumQ(10, 0)
           /\ results.list[i].partialDescription
                  = RowDescription(partialData.data[1], mappings.partial)

-----------------------------------------------------------------------------
(* Properties of the comparison key *)

\* the rows of the two tables that get a key, each with its side's mapping
KeyedRows ==
    {<<SourceRowsWithCode[i], mappings.original>> : i \in 1..Len(SourceRowsWithCode)}
    \cup {<<ValidTargetRows[i], mappings.partial>> : i \in 1..Len(ValidTargetRows)}

KeyOf(keyed) == RowKey(keyed[1], keyed[2], ignoreRevision)
CodeOf(keyed) == RowCode(keyed[1], keyed[2])
RevisionOf(keyed) == RowRevision(keyed[1], keyed[2])

\* the revision as the key spells it: nothing for a null revision
RevisionText(revision) == IF revision = Null THEN <<>> ELSE revision

\* a valid target row with the code and the revision text of a result's
\* source side
HasTargetOfSameRevisionText(r) ==
    \E i \in 1..Len(ValidTargetRows) :
        /\ RowCode(ValidTargetRows[i], mappings.partial) = r.originalCode
        /\ RevisionText(RowRevision(ValidTargetRows[i], mappings.partial))
               = RevisionText(r.originalRevision)

BothNullShareKeyReached ==
    /\ HasResults /\ ~ignoreRevision
    /\ mappings.original.revision = NoColumn /\ mappings.partial.revision = NoColumn
    /\ \E i \in 1..Len(results.list) :
           /\ results.list[i].status \in {QUANTITY_EQUAL, QUANTITY_DIFFERENT}
           /\ results.list[i].originalRevision = Null
           /\ results.list[i].partialRevision = Null

\* a valid target row with the code of a result's source side
HasTargetOfSameCode(r) == TargetRowsOfCode(r.originalCode) # <<>>

\* C15: with ignoreRevision = true rows are matched on the code alone: a
\* source code is compared with the target (QUANTITY_EQUAL or
\* QUANTITY_DIFFERENT, the target side carrying the same code) whenever a
\* target row has that code, whatever the revisions, it is ABSENT only when
\* no target row has it, and no result is REVISION_DIFFERENT, in either
\* aggregation mode.
C15_CodeAloneWhenRevisionIgnored ==
    (HasResults /\ ignoreRevision) =>
        \A i \in 1..Len(results.list) :
            LET r == results.list[i]
            IN  /\ r.status # REVISION_DIFFERENT
                /\ r.status \in {QUANTITY_EQUAL, QUANTITY_DIFFERENT}
                       => (HasTargetOfSameCode(r) /\ r.partialCode = r.originalCode)
                /\ r.status = ABSENT => ~HasTargetOfSameCode(r)
                /\ (r.originalCode # Null /\ IsNum(r.originalQuantity)
                        /\ HasTargetOfSameCode(r))
                       => r.status \in {QUANTITY_EQUAL, QUANTITY_DIFFERENT}

\* a source row and a target row of one code and different revisions,
\* compared with each other
C15_Witness ==
    /\ HasResults /\ ignoreRevision /\ aggregateCodes
    /\ \E i \in 1..Len(results.list) :
           /\ results.list[i].status \in {QUANTITY_EQUAL, QUANTITY_DIFFERENT}
           /\ results.list[i].originalRevision # Null
           /\ results.list[i].partialRevision # Null
           /\ results.list[i].originalRevision # results.list[i].partialRevision

-----------------------------------------------------------------------------
(* Properties of the absent source keys *)

\* the source rows with a code and a parseable quantity
ParseableSourceRows ==
    SelectSeq(SourceRowsWithCode,
              LAMBDA row : IsNum(RowQuantity(row, mappings.original)))

\* no valid target row has the key and no revision fallback applies to the
\* code
IsAbsentKey(valid, key, code) ==
    /\ \A i \in 1..Len(valid) :
           RowKey(valid[i], mappings.partial, ignoreRevision) # key
    /\ \/ ignoreRevision
       \/ \A i \in 1..Len(valid) : RowCode(valid[i], mappings.partial) # code

\* the parseable source rows without an exact match and without a fallback
AbsentRows ==
    The({SelectSeq(ParseableSourceRows,
                   LAMBDA row : IsAbsentKey(valid,
                                            RowKey(row, mappings.original,
                                                   ignoreRevision),
                                            RowCode(row, mappings.original))) :
            valid \in {ValidTargetRows}})

KeysOfRows(rows) ==
    {RowKey(rows[i], mappings.original, ignoreRevision) : i \in 1..Len(rows)}
RowsOfKeyAmong(rows, key) ==
    SelectSeq(rows, LAMBDA row : RowKey(row, mappings.original, ignoreRevision) = key)

\* r is the ABSENT result of some rows: their summed quantity, the other
\* source fields of the first of them, no target side
IsAbsentOf(r, rows) ==
    /\ r.status = ABSENT
    /\ r.originalQuantity = TotalOf(rows, mappings.original)
    /\ r.originalCode = RowCode(rows[1], mappings.original)
    /\ r.originalDescription = RowDescription(rows[1], mappings.original)
    /\ r.originalRevision = RowRevision(rows[1], mappings.original)
    /\ r.originalCategory = RowCategory(rows[1], mappings.original)
    /\ r.partialCode = Null /\ r.partialQuantity = NullQ

\* C21: in non-aggregated mode the source rows with a parseable quantity
\* whose key has neither an exact target match nor a revision fallback give
\* exactly one ABSENT result per distinct key, with the sum of the
\* quantities of those rows and the other source fields of the first of
\* them; these ABSENT results come after every other result of the source
\* walk.
C21_OneAbsentPerKeyAtTheEnd ==
    (HasResults /\ ~aggregateCodes) =>
        \A absent \in {AbsentRows}, list \in {ResultsOf(ABSENT)} :
            /\ Len(list) = Cardinality(KeysOfRows(absent))
            /\ \A key \in KeysOfRows(absent) :
                   \E i \in 1..Len(list) :
                       /\ SourceKeyOf(list[i]) = key
                       /\ IsAbsentOf(list[i], RowsOfKeyAmong(absent, key))
            /\ \A i, j \in 1..Len(results.list) :
                   (i < j /\ results.list[i].status = ABSENT)
                       => results.list[j].status \in {ABSENT, ABSENT_IN_ORIGINAL}

\* the source rows A = "3,0000005" and A = "4" of one key and no target row
\* of the code: the one ABSENT result with 7.0000005 and the description of
\* the first row
C21_Witness ==
    /\ HasResults /\ ~aggregateCodes
    /\ mappings.original.description # NoColumn
    /\ Len(originalData.data) = 2 /\ Len(AbsentRows) = 2
    /\ Cardinality(KeysOfRows(AbsentRows)) = 1
    /\ RowDescription(originalData.data[1], mappings.original)
           # RowDescription(originalData.data[2], mappings.original)
    /\ Len(ResultsOf(ABSENT)) = 1
    /\ ResultsOf(ABSENT)[1].originalQuantity = NumQ(7, 5)
    /\ ResultsOf(ABSENT)[1].originalDescription
           = RowDescription(originalData.data[1], mappings.original)

\* an absent row before a matched row: its ABSENT result after the match
AbsentAfterLaterRowReached ==
    /\ HasResults /\ ~aggregateCodes
    /\ Len(originalData.data) = 2 /\ Len(results.list) >= 2
    /\ results.list[1].status \in {QUANTITY_EQUAL, QUANTITY_DIFFERENT}
    /\ results.list[1].originalCode = RowCode(originalData.data[2], mappings.original)
    /\ results.list[2].status = ABSENT
    /\ results.list[2].originalCode = RowCode(originalData.data[1], mappings.original)

-----------------------------------------------------------------------------
(* Properties of the unparseable source quantities *)

\* the source rows with a code and an unparseable quantity
UnparseableSourceRows ==
    SelectSeq(SourceRowsWithCode,
              LAMBDA row : ~IsNum(RowQuantity(row, mappings.original)))

\* r reports the row as INVALID_QUANTITY, with the text of its quantity cell
IsInvalidOf(r, row) ==
    /\ r.status = INVALID_QUANTITY
    /\ r.originalQuantity = StrQ(CellStr(row, mappings.original.quantity))
    /\ r.originalCode = RowCode(row, mappings.original)
    /\ r.originalDescription = RowDescription(row, mappings.original)
    /\ r.originalRevision = RowRevision(row, mappings.original)
    /\ r.originalCategory = RowCategory(row, mappings.original)

\* every unparseable row has its own INVALID_QUANTITY result
InvalidRowsHaveTheirResult ==
    \A rows \in {UnparseableSourceRows}, list \in {ResultsOf(INVALID_QUANTITY)} :
        /\ Len(list) = Len(rows)
        /\ \A i \in 1..Len(rows) : IsInvalidOf(list[i], rows[i])

MappingsComplete ==
    /\ mappings.original.code # NoColumn /\ mappings.original.quantity # NoColumn
    /\ mappings.partial.code # NoColumn /\ mappings.partial.quantity # NoColumn

\* C22: in both aggregation modes every source row with a non-empty code
\* and an unparseable quantity is reported by its own INVALID_QUANTITY
\* result, whose originalQuantity is the raw text of the row; an unparseable
\* quantity never aborts the run and is never absorbed into another result.
C22_InvalidRowsAreReported ==
    /\ (Called /\ MappingsComplete) => HasResults
    /\ HasResults => InvalidRowsHaveTheirResult

\* the same in non-aggregated mode, and in aggregated mode for the groups
\* that neither match in total nor fall back to another revision
InvalidRowsAreReportedRowByRow ==
    /\ (Called /\ MappingsComplete) => HasResults
    /\ (HasResults /\ ~aggregateCodes) => InvalidRowsHaveTheirResult
    /\ (HasResults /\ aggregateCodes /\ ~HasStatus(REVISION_DIFFERENT)
           /\ \A i \in 1..Len(results.list) :
                  results.list[i].status = QUANTITY_EQUAL
                      => \E j \in 1..Len(ParseableSourceRows) :
                             /\ RowQuantity(ParseableSourceRows[j], mappings.original)
                                    = results.list[i].originalQuantity
                             /\ Len(SourceRowsOfKey(SourceKeyOf(results.list[i]))) = 1)
          => InvalidRowsHaveTheirResult

\* aggregated: the source rows A = "3,0000005" and A = "x" of one key and
\* the target row A = "3": the one QUANTITY_EQUAL result, none for "x"
InvalidRowAbsorbedReached ==
    /\ HasResults /\ aggregateCodes
    /\ Len(originalData.data) = 2 /\ Len(UnparseableSourceRows) = 1
    /\ Len(results.list) = 1
    /\ results.list[1].status = QUANTITY_EQUAL
    /\ results.list[1].originalQuantity = NumQ(3, 5)

\* non-aggregated: the same rows give the result of "x" with its text
InvalidRowReportedReached ==
    /\ HasResults /\ ~aggregateCodes
    /\ Len(originalData.data) = 2 /\ Len(UnparseableSourceRows) = 1
    /\ Len(results.list) = 2
    /\ results.list[2].status = INVALID_QUANTITY
    /\ results.list[2].originalQuantity = StrQ(<<"x">>)
    /\ results.list[2].partialCode = Null

-----------------------------------------------------------------------------
(* Properties of the unprocessed target keys *)

\* some source row with a code has the key
HasSourceRow(sources, key) ==
    \E j \in 1..Len(sources) :
        RowKey(sources[j], mappings.original, ignoreRevision) = key

\* some source row of the code has a key that no valid target row has
HasUnmatchedSourceOfCode(sources, valid, code) ==
    \E j \in 1..Len(sources) :
        /\ RowCode(sources[j], mappings.original) = code
        /\ \A k \in 1..Len(valid) :
               RowKey(valid[k], mappings.partial, ignoreRevision)
                   # RowKey(sources[j], mappings.original, ignoreRevision)

\* C23: a target index key K is emitted as ABSENT_IN_ORIGINAL, exactly once,
\* if and only if no source row with a non-empty code has the key K and,
\* with ignoreRevision = false, no source key without an exact target match
\* has the bare code of K; otherwise it is not emitted at all, and every
\* ABSENT_IN_ORIGINAL result is the one of a target index key.
C23_UnprocessedKeysAreAbsentInOriginal ==
    HasResults =>
        \A valid \in {ValidTargetRows}, sources \in {SourceRowsWithCode},
           absent \in {ResultsOf(ABSENT_IN_ORIGINAL)} :
            /\ \A i \in 1..Len(valid) :
                   LET key     == RowKey(valid[i], mappings.partial, ignoreRevision)
                       code    == RowCode(valid[i], mappings.partial)
                       emitted == {n \in 1..Len(absent) : TargetKeyOf(absent[n]) = key}
                   IN  Cardinality(emitted) =
                           IF /\ ~HasSourceRow(sources, key)
                              /\ \/ ignoreRevision
                                 \/ ~HasUnmatchedSourceOfCode(sources, valid, code)
                           THEN 1 ELSE 0
            /\ \A n \in 1..Len(absent) :
                   \E i \in 1..Len(valid) :
                       /\ TargetKeyOf(absent[n])
                              = RowKey(valid[i], mappings.partial, ignoreRevision)
                       /\ absent[n].partialCode = RowCode(valid[i], mappings.partial)

\* the source row A rev 1 matches the target A rev 1 exactly and the other
\* target revision of A is ABSENT_IN_ORIGINAL
C23_Witness ==
    /\ HasResults /\ ~ignoreRevision
    /\ Len(SourceRowsWithCode) = 1
    /\ Len(results.list) = 2
    /\ results.list[1].status \in {QUANTITY_EQUAL, QUANTITY_DIFFERENT}
    /\ results.list[1].originalRevision = results.list[1].partialRevision
    /\ results.list[2].status = ABSENT_IN_ORIGINAL
    /\ results.list[2].partialCode = results.list[1].originalCode
    /\ results.list[2].partialRevision # results.list[1].partialRevision

\* an unmatched source revision of A keeps both target revisions of A from
\* being ABSENT_IN_ORIGINAL, although only one of them is in a result
OtherRevisionsSuppressedReached ==
    /\ HasResults /\ ~ignoreRevision
    /\ Len(SourceRowsWithCode) = 1
    /\ Len(ValidTargetRows) = 2
    /\ RowRevision(ValidTargetRows[1], mappings.partial)
           # RowRevision(ValidTargetRows[2], mappings.partial)
    /\ Len(results.list) = 1
    /\ results.list[1].status = REVISION_DIFFERENT

-----------------------------------------------------------------------------
(* Properties of the absent groups of the aggregated walk *)

NoTargetSide(r) ==
    /\ r.partialCode = Null /\ r.partialQuantity = NullQ
    /\ r.partialDescription = Null /\ r.partialRevision = Null
    /\ r.partialCategory = Null

\* no valid target row has the key, and with ignoreRevision = false none
\* has the code
IsAbsentGroup(valid, key, code) ==
    /\ \A k \in 1..Len(valid) :
           RowKey(valid[k], mappings.partial, ignoreRevision) # key
    /\ \/ ignoreRevision
       \/ \A k \in 1..Len(valid) : RowCode(valid[k], mappings.partial) # code

\* the results of an absent group: the ABSENT result of its parseable rows,
\* if any, then the INVALID_QUANTITY results of its unparseable rows
IsAbsentGroupReport(list, first, parseable, unparseable) ==
    LET shift == IF parseable = <<>> THEN 0 ELSE 1
    IN  /\ Len(list) = shift + Len(unparseable)
        /\ parseable # <<>> =>
               /\ list[1].status = ABSENT
               /\ list[1].originalCode = RowCode(first, mappings.original)
               /\ list[1].originalQuantity = TotalOf(parseable, mappings.original)
               /\ list[1].originalDescription = RowDescription(first, mappings.original)
               /\ list[1].originalRevision = RowRevision(first, mappings.original)
               /\ list[1].originalCategory = RowCategory(first, mappings.original)
               /\ NoTargetSide(list[1])
        /\ \A n \in 1..Len(unparseable) :
               /\ IsInvalidOf(list[shift + n], unparseable[n])
               /\ NoTargetSide(list[shift + n])

\* C24: in aggregated mode a source key with neither an exact target match
\* nor a revision fallback yields one ABSENT result with the sum of its
\* rows of parseable quantity if there is such a row, and none otherwise,
\* plus one INVALID_QUANTITY result with null target fields for each of its
\* rows of unparseable quantity, and nothing else.
C24_AbsentGroupSplitsValidAndInvalid ==
    (HasResults /\ aggregateCodes) =>
        \A sources \in {SourceRowsWithCode}, valid \in {ValidTargetRows} :
            \A j \in 1..Len(sources) :
                LET key  == RowKey(sources[j], mappings.original, ignoreRevision)
                    code == RowCode(sources[j], mappings.original)
                    rows == SelectSeq(sources,
                                LAMBDA row : RowKey(row, mappings.original,
                                                    ignoreRevision) = key)
                IN  IsAbsentGroup(valid, key, code) =>
                        IsAbsentGroupReport(
                            SourceResultsOfKey(key), rows[1],
                            SelectSeq(rows, LAMBDA row :
                                IsNum(RowQuantity(row, mappings.original))),
                            SelectSeq(rows, LAMBDA row :
                                ~IsNum(RowQuantity(row, mappings.original))))

\* the group of A = "3,0000005" and A = "x" without any target row of A:
\* ABSENT with 3.0000005, then INVALID_QUANTITY with "x"
C24_Witness ==
    /\ HasResults /\ aggregateCodes
    /\ Len(SourceRowsWithCode) = 2 /\ Len(UnparseableSourceRows) = 1
    /\ Len(ResultsOf(ABSENT)) = 1 /\ Len(ResultsOf(INVALID_QUANTITY)) = 1
    /\ results.list[1].status = ABSENT
    /\ results.list[1].originalQuantity = NumQ(3, 5)
    /\ results.list[2].status = INVALID_QUANTITY
    /\ results.list[2].originalQuantity = StrQ(<<"x">>)
    /\ SourceKeyOf(results.list[1]) = SourceKeyOf(results.list[2])
    /\ NoTargetSide(results.list[2])

\* a group of unparseable rows only has no ABSENT result
OnlyInvalidAbsentGroupReached ==
    /\ HasResults /\ aggregateCodes
    /\ Len(SourceRowsWithCode) = 1 /\ Len(UnparseableSourceRows) = 1
    /\ Len(results.list) = 1
    /\ results.list[1].status = INVALID_QUANTITY
    /\ NoTargetSide(results.list[1])

\* two parseable rows of an absent group are one ABSENT result with 7.0000005
SummedAbsentGroupReached ==
    /\ HasResults /\ aggregateCodes
    /\ Len(SourceRowsWithCode) = 2
    /\ Len(results.list) = 1
    /\ results.list[1].status = ABSENT
    /\ results.list[1].originalQuantity = NumQ(7, 5)

-----------------------------------------------------------------------------
(* Properties of the processed target keys *)

\* some result carries, on its target side, the key of the index entry, its
\* quantity (the sum of the valid target rows of the key) and its revision
\* (the one of the first of them)
TargetKeyInAResult(valid, key) ==
    LET rows == SelectSeq(valid, LAMBDA row :
                    RowKey(row, mappings.partial, ignoreRevision) = key)
    IN  \E n \in 1..Len(results.list) :
            /\ results.list[n].partialCode # Null
            /\ TargetKeyOf(results.list[n]) = key
            /\ results.list[n].partialRevision = RowRevision(rows[1], mappings.partial)
            /\ results.list[n].partialQuantity = TotalOf(rows, mappings.partial)

AllTargetKeysInAResult ==
    \A valid \in {ValidTargetRows} :
        \A i \in 1..Len(valid) :
            TargetKeyInAResult(valid, RowKey(valid[i], mappings.partial,
                                             ignoreRevision))

\* C28: every key of the target index is reported: in both modes each
\* target key either is emitted as ABSENT_IN_ORIGINAL or supplies the target
\* fields (revision and quantity) of at least one result of the source
\* walk; no target key is marked processed without appearing in a result.
C28_EveryTargetKeyIsInAResult ==
    HasResults => AllTargetKeysInAResult

\* the same when no source row is reported without looking at the target
\* (aggregated mode, or no unparseable source quantity) and no source key
\* falls back to another revision
TargetKeysInAResultWithoutFallback ==
    (/\ HasResults
     /\ aggregateCodes \/ UnparseableSourceRows = <<>>
     /\ ignoreRevision \/ FallbackKeys = {})
        => AllTargetKeysInAResult

\* non-aggregated: the source row A = "x" marks the key of the target row
\* A = 7 processed and reports no target fields
InvalidRowHidesTargetKeyReached ==
    /\ HasResults /\ ~aggregateCodes
    /\ Len(ValidTargetRows) = 1
    /\ Len(results.list) = 1
    /\ results.list[1].status = INVALID_QUANTITY
    /\ results.list[1].partialCode = Null
    /\ RowKey(ValidTargetRows[1], mappings.partial, ignoreRevision)
           = SourceKeyOf(results.list[1])

\* the fallback of a source revision reports the first target revision of
\* the code and marks the second one processed too
FallbackHidesOtherRevisionReached ==
    /\ HasResults /\ ~ignoreRevision
    /\ Len(ValidTargetRows) = 2
    /\ RowCode(ValidTargetRows[1], mappings.partial)
           = RowCode(ValidTargetRows[2], mappings.partial)
    /\ RowRevision(ValidTargetRows[1], mappings.partial)
           # RowRevision(ValidTargetRows[2], mappings.partial)
    /\ Len(results.list) = 1
    /\ results.list[1].status = REVISION_DIFFERENT
    /\ results.list[1].partialRevision = RowRevision(ValidTargetRows[1], mappings.partial)

-----------------------------------------------------------------------------
(* Properties of the two aggregation modes on tables without duplicates *)

\* every source row has a code and a parseable quantity, and no two source
\* rows share a key
SourceWithoutDuplicates ==
    \A i \in 1..Len(originalData.data) :
        LET row == originalData.data[i]
        IN  /\ RowCode(row, mappings.original) # <<>>
            /\ IsNum(RowQuantity(row, mappings.original))
            /\ \A j \in 1..(i - 1) :
                   RowKey(originalData.data[j], mappings.original, ignoreRevision)
                       # RowKey(row, mappings.original, ignoreRevision)

\* what compareData returns for the same input in the other mode
OtherModeResults ==
    compareData(originalData, partialData, mappings, ~aggregateCodes,
                ignoreRevision).results

TimesIn(list, r) == Cardinality({i \in 1..Len(list) : list[i] = r})

SameMultiset(a, b) ==
    /\ Len(a) = Len(b)
    /\ \A i \in 1..Len(a) : TimesIn(a, a[i]) = TimesIn(b, a[i])

\* C30: the two aggregation modes are equivalent on inputs without
\* duplicates: when no two source rows share a key and every source row has
\* a non-empty code and a parseable quantity, compareData returns the same
\* multiset of results (statuses, source and target fields) with
\* aggregate = true and with aggregate = false, for both ignoreRevision
\* values.
C30_ModesAgreeWithoutDuplicates ==
    (HasResults /\ SourceWithoutDuplicates) =>
        \A other \in {OtherModeResults} : SameMultiset(results.list, other)

\* two source rows of different keys, one compared and one absent: the two
\* modes return the same two results in different orders
C30_Witness ==
    /\ HasResults /\ aggregateCodes /\ SourceWithoutDuplicates
    /\ Len(originalData.data) = 2
    /\ Len(results.list) = 2
    /\ results.list[1].status = ABSENT
    /\ results.list[2].status = QUANTITY_DIFFERENT
    /\ OtherModeResults = <<results.list[2], results.list[1]>>

\* with two source rows of one key the modes differ
ModesDifferOnDuplicatesReached ==
    /\ HasResults /\ aggregateCodes /\ ~SourceWithoutDuplicates
    /\ Len(originalData.data) = 2
    /\ Len(results.list) = 1
    /\ Len(OtherModeResults) = 2

-----------------------------------------------------------------------------
(* The Reconciler on codes and revisions that contain "::" *)

\* source rows: the code A with the revision "1::", the code "A::1" without
\* a revision (both have the key "A::1::"), the code A with the revision 1
KeySourceRows ==
   << Row(<<"A">>, StrQ(<<"3">>), <<"a">>, <<"1",":",":">>, <<"c">>),
      Row(<<"A",":",":","1">>, StrQ(<<"4">>), <<"b">>, <<>>, <<"d">>),
      Row(<<"A">>, StrQ(<<"3">>), <<"a">>, <<"1">>, <<"c">>) >>

\* target rows: the same two of one key, the code "A::1" with the revision
\* 2, the code B
KeyTargetRows ==
   << Row(<<"A">>, StrQ(<<"3">>), <<"p">>, <<"1",":",":">>, <<"c">>),
      Row(<<"A",":",":","1">>, StrQ(<<"4">>), <<"q">>, <<>>, <<"d">>),
      Row(<<"A",":",":","1">>, StrQ(<<"5">>), <<"r">>, <<"2">>, <<>>),
      Row(<<"B">>, StrQ(<<"7">>), <<"s">>, <<>>, <<>>) >>

InitKeys ==
    /\ NormalizerIdle /\ ApplicatorIdle /\ InterpreterIdle
    /\ originalData \in {ParsedFile(t) : t \in TopDownTablesOf(KeySourceRows, MaxRows)}
    /\ partialData \in {ParsedFile(t) : t \in TablesOf(KeyTargetRows, MaxRows)}
    /\ mappings \in { [original |-> FullMapping, partial |-> FullMapping],
                      [original |-> BareMapping, partial |-> BareMapping] }
    /\ aggregateCodes = FALSE
    /\ ignoreRevision = TRUE
    /\ results = NoResults
    /\ error = NoError
    /\ rowsRead = 0

SpecKeys == InitKeys /\ [][Next]_vars

-----------------------------------------------------------------------------
(* Properties of the key as an identity of code and revision *)

\* the rows of the two tables that enter a key: (code, revision) pairs
KeyedPairs ==
    { <<RowCode(SourceRowsWithCode[i], mappings.original),
        RevisionText(RowRevision(SourceRowsWithCode[i], mappings.original))>> :
          i \in 1..Len(SourceRowsWithCode) }
    \cup
    { <<RowCode(ValidTargetRows[i], mappings.partial),
        RevisionText(RowRevision(ValidTargetRows[i], mappings.partial))>> :
          i \in 1..Len(ValidTargetRows) }

KeyIsInjective ==
    \A p, q \in KeyedPairs :
        getKey(p[1], p[2], FALSE) = getKey(q[1], q[2], FALSE) => p = q

\* a comparison result stands for a valid target row of its own code and
\* of the revision it shows
ComparedWithOwnCode(r) ==
    r.status \in {QUANTITY_EQUAL, QUANTITY_DIFFERENT} =>
        \E i \in 1..Len(ValidTargetRows) :
            /\ RowCode(ValidTargetRows[i], mappings.partial) = r.originalCode
            /\ RowRevision(ValidTargetRows[i], mappings.partial) = r.partialRevision

\* C26: with ignoreRevision = false the key is injective on (code, revision)
\* pairs, null and empty revision counted as equal, also for codes and
\* revisions that contain "::"; hence rows of different codes are never
\* matched or summed together.
C26_KeyIsInjective ==
    (HasResults /\ ~ignoreRevision) =>
        /\ KeyIsInjective
        /\ \A i \in 1..Len(results.list) : ComparedWithOwnCode(results.list[i])

\* the source row of code A, revision "1::", 3 pieces, is compared with the
\* target row of code "A::1", no revision, 4 pieces
OtherCodeMatchedReached ==
    /\ HasResults /\ ~ignoreRevision
    /\ Len(SourceRowsWithCode) = 1 /\ Len(ValidTargetRows) = 1
    /\ RowCode(SourceRowsWithCode[1], mappings.original) = <<"A">>
    /\ RowCode(ValidTargetRows[1], mappings.partial) = <<"A",":",":","1">>
    /\ Len(results.list) = 1
    /\ results.list[1].status = QUANTITY_DIFFERENT
    /\ results.list[1].originalQuantity = NumQ(3, 0)
    /\ results.list[1].partialQuantity = NumQ(4, 0)
    /\ results.list[1].partialCode = <<"A">>

\* the target rows of code A and of code "A::1" are one index entry of 7
OtherCodeSummedReached ==
    /\ HasResults /\ ~ignoreRevision
    /\ Len(SourceRowsWithCode) = 0 /\ Len(ValidTargetRows) = 2
    /\ RowCode(ValidTargetRows[1], mappings.partial)
           # RowCode(ValidTargetRows[2], mappings.partial)
    /\ Len(results.list) = 1
    /\ results.list[1].status = ABSENT_IN_ORIGINAL
    /\ results.list[1].partialQuantity = NumQ(7, 0)

\* C27: the partialCode of every ABSENT_IN_ORIGINAL result is the code of
\* the target rows that were aggregated under its key, for every code and
\* both ignoreRevision values, also for the codes that contain "::".
C27_AbsentInOriginalCarriesTheTargetCode ==
    HasResults =>
        \A valid \in {ValidTargetRows} :
            \A n \in 1..Len(results.list) :
                results.list[n].status = ABSENT_IN_ORIGINAL =>
                    \E i \in 1..Len(valid) :
                        /\ RowCode(valid[i], mappings.partial)
                               = results.list[n].partialCode
                        /\ RowRevision(valid[i], mappings.partial)
                               = results.list[n].partialRevision
                        /\ RowDescription(valid[i], mappings.partial)
                               = results.list[n].partialDescription

\* the target row of code "A::1", revision 2, is ABSENT_IN_ORIGINAL with the
\* partialCode A, with ignoreRevision false and with ignoreRevision true
CodeCutAtSeparatorReached ==
    /\ HasResults /\ ~ignoreRevision
    /\ Len(ValidTargetRows) = 1
    /\ RowCode(ValidTargetRows[1], mappings.partial) = <<"A",":",":","1">>
    /\ Len(results.list) = 1
    /\ results.list[1].status = ABSENT_IN_ORIGINAL
    /\ results.list[1].partialCode = <<"A">>
    /\ results.list[1].partialRevision = <<"2">>
CodeCutWithoutRevisionReached ==
    /\ HasResults /\ ignoreRevision
    /\ Len(ValidTargetRows) = 1
    /\ RowCode(ValidTargetRows[1], mappings.partial) = <<"A",":",":","1">>
    /\ Len(results.list) = 1
    /\ results.list[1].status = ABSENT_IN_ORIGINAL
    /\ results.list[1].partialCode = <<"A">>

-----------------------------------------------------------------------------
(* The Rule Applicator on its own: a table, a rule list, the columns *)

\* rows for the rules: a thousands separator, a decimal comma, a category to
\* trim, a code twice, numeric cells (the number 0)
RuleRows ==
   << Row(<<"A">>, StrQ(<<"3">>), <<"x">>, <<>>, <<"d">>),
      Row(<<"A">>, StrQ(<<"1",".","0","0","0",",","5">>), <<"a","b">>, <<>>, <<"c">>),
      Row(<<"B">>, StrQ(<<"2",",","2","5">>), <<"B","a">>, <<>>, <<" ","c"," ">>),
      Row(<<"D">>, StrQ(<<"5">>), <<>>, <<>>, <<>>),
      Row(<<"9","9","0","1">>, StrQ(<<"x">>), <<"x","a">>, <<>>, <<"d">>),
      [code |-> StrQ(<<"1","2","3","4">>), qty |-> NumQ(1, 0), desc |-> NumQ(0, 0),
       rev |-> StrQ(<<>>), cat |-> NumQ(0, 0)] >>

\* rules as parseRulesFile and the rule editor leave them: enabled, a merge
\* rule with a result code and at least one source code
RuleChoices ==
   << ExcludeRule("CODE_EXACT", <<"A","+"," ","B","+","E">>),
      ExcludeRule("CODE_PREFIX", <<"9","9">>),
      ExcludeRule("DESCRIPTION_CONTAINS", <<"b">>),
      ExcludeRule("DESCRIPTION_PREFIX", <<"b">>),
      ExcludeRule("DESCRIPTION_CONTAINS", <<"0">>),
      ExcludeRule("CATEGORY_EXACT", <<"c">>),
      MergeRule(<<<<"A">>, <<"B">>>>, <<"C">>, <<"M","b">>),
      MergeRule(<<<<"C">>, <<"D">>, <<"9","9","0","1">>>>, <<"E">>, <<>>) >>

RuleTables == TopDownTablesOf(RuleRows, MaxRuleRows)

\* the lists of at most MaxRules of these rules, in this order or the opposite
RuleLists == TablesOf(RuleChoices, MaxRules)

\* the columns handed to applyTransformationRules: every role, the mandatory
\* roles only, or (as performComparison calls it) no category column
ColumnChoices ==
    { FullMapping, BareMapping, [FullMapping EXCEPT !.category = NoColumn] }

ComparerIdle ==
    /\ partialData = ParsedFile(<<>>)
    /\ aggregateCodes = FALSE /\ ignoreRevision = TRUE
    /\ results = NoResults /\ error = NoError /\ rowsRead = 0

\* handleToggleRule(index): rule.enabled = !(rule.enabled ?? true)
ToggleRule(index) ==
    /\ transformed = NoTable
    /\ index \in 1..Len(rules)
    /\ rules' = [rules EXCEPT ![index].enabled =
                    IF @ \in {"true", "undefined"} THEN "false" ELSE "true"]
    /\ UNCHANGED <<qCell, qNum, qPrev, originalData, partialData, mappings,
                   aggregateCodes, ignoreRevision, results, error, rowsRead,
                   transformed, rulesSheet, rulesParsed>>

\* applyTransformationRules(originalData, rules, code, quantity, description,
\* category) with the columns of mappings.original
ApplyRules ==
    /\ transformed = NoTable
    /\ transformed' = applyTransformationRules(originalData, rules,
                          mappings.original.code, mappings.original.quantity,
                          mappings.original.description, mappings.original.category)
    /\ UNCHANGED <<qCell, qNum, qPrev, originalData, partialData, mappings, rules,
                   aggregateCodes, ignoreRevision, results, error, rowsRead,
                   rulesSheet, rulesParsed>>

InitRules ==
    /\ NormalizerIdle /\ ComparerIdle /\ InterpreterIdle
    /\ originalData \in {ParsedFile(t) : t \in RuleTables}
    /\ rules \in RuleLists
    /\ mappings \in {[original |-> c, partial |-> c] : c \in ColumnChoices}
    /\ transformed = NoTable

NextRules ==
    \/ \E index \in 1..MaxRules : ToggleRule(index)
    \/ ApplyRules

SpecRules == InitRules /\ [][NextRules]_vars

-----------------------------------------------------------------------------
(* Properties of applyTransformationRules *)

Applied == transformed # NoTable

codeRole == mappings.original.code
descriptionRole == mappings.original.description
categoryRole == mappings.original.category
quantityRole == mappings.original.quantity

IsActive(rule) == rule.enabled # "false"
ActiveExcludes == SelectSeq(rules, LAMBDA r : IsActive(r) /\ r.type = EXCLUDE)
ActiveMergeIndexes == {i \in 1..Len(rules) : IsActive(rules[i]) /\ rules[i].type = MERGE}

\* what apply returns for the table and another rule list
AppliedWith(ruleList) ==
    applyTransformationRules(originalData, ruleList, codeRole, quantityRole,
                             descriptionRole, categoryRole)

\* the '+'-separated, trimmed tokens of a value
TokensOf(value) == {Trim(Split(value, "+")[i]) : i \in 1..Len(Split(value, "+"))}

\* a rule matches a row, given the text of the row's description and category
MatchesWith(rule, row, description, category) ==
    \/ /\ rule.subType = "CODE_EXACT"
       /\ CellStr(row, codeRole) \in TokensOf(rule.value)
    \/ /\ rule.subType = "CODE_PREFIX"
       /\ StartsWith(CellStr(row, codeRole), rule.value)
    \/ /\ rule.subType = "DESCRIPTION_CONTAINS"
       /\ descriptionRole # NoColumn
       /\ Includes(ToUpperCase(description), ToUpperCase(rule.value))
    \/ /\ rule.subType = "DESCRIPTION_PREFIX"
       /\ descriptionRole # NoColumn
       /\ StartsWith(ToUpperCase(description), ToUpperCase(rule.value))
    \/ /\ rule.subType = "CATEGORY_EXACT"
       /\ categoryRole # NoColumn
       /\ Trim(category) = rule.value

\* the text of a cell; the same with the number 0 read as no text
TextOf(row, column) == CellStr(row, column)
TextUnlessZero(row, column) ==
    IF Cell(row, column) = NumQ(0, 0) THEN <<>> ELSE CellStr(row, column)

\* C7: a row survives the exclusion pass if and only if no active EXCLUDE
\* rule matches it: CODE_EXACT by the trimmed '+'-separated tokens of value,
\* CODE_PREFIX by the start of the code, DESCRIPTION_CONTAINS and
\* DESCRIPTION_PREFIX by the upper-cased description when a description
\* column is mapped, CATEGORY_EXACT by the trimmed category when a category
\* column is mapped.
C7_SurvivesIffNoRuleMatches ==
    (Applied /\ ActiveMergeIndexes = {}) =>
        transformed.data =
            SelectSeq(originalData.data, LAMBDA row :
                \A i \in 1..Len(ActiveExcludes) :
                    ~MatchesWith(ActiveExcludes[i], row,
                                 TextOf(row, descriptionRole),
                                 TextOf(row, categoryRole)))

\* the same with a description or category cell holding the number 0 read
\* as the empty string
SurvivesIffNoRuleMatchesUnlessZero ==
    (Applied /\ ActiveMergeIndexes = {}) =>
        transformed.data =
            SelectSeq(originalData.data, LAMBDA row :
                \A i \in 1..Len(ActiveExcludes) :
                    ~MatchesWith(ActiveExcludes[i], row,
                                 TextUnlessZero(row, descriptionRole),
                                 TextUnlessZero(row, categoryRole)))

\* CODE_PREFIX "99" has dropped code "9901" and kept "1234"
PrefixExampleReached ==
    /\ Applied
    /\ Len(ActiveExcludes) = 1 /\ ActiveExcludes[1].subType = "CODE_PREFIX"
    /\ Len(originalData.data) = 2
    /\ CellStr(originalData.data[1], codeRole) = <<"9","9","0","1">>
    /\ transformed.data = <<originalData.data[2]>>

\* the last active MERGE rule of the list, the list without it, and the
\* table that rule is applied to: what the rules before it leave
LastMergeIndex == CHOOSE i \in ActiveMergeIndexes : \A j \in ActiveMergeIndexes : j <= i
LastMerge == rules[LastMergeIndex]
RulesBeforeLastMerge ==
    SubSeq(rules, 1, LastMergeIndex - 1) \o SubSeq(rules, LastMergeIndex + 1, Len(rules))
TableBeforeLastMerge ==
    applyTransformationRules(originalData, RulesBeforeLastMerge, codeRole,
                             quantityRole, descriptionRole,
                             categoryRole).data

IsSourceOf(rule, row) ==
    \E i \in 1..Len(rule.sourceCodes) : rule.sourceCodes[i] = CellStr(row, codeRole)

\* the first row of every code among some rows
FirstRowPerCode(rows) ==
    SelectSeq(rows, LAMBDA row :
        LET first == CHOOSE i \in 1..Len(rows) :
                         /\ CellStr(rows[i], codeRole) = CellStr(row, codeRole)
                         /\ \A j \in 1..(i - 1) :
                                CellStr(rows[j], codeRole) # CellStr(row, codeRole)
        IN  rows[first] = row)

\* the row a MERGE rule synthesizes from the rows it removes
SynthesizedRow(rule, removed) ==
    [header \in SeqToSet(originalData.headers) |->
        IF header = codeRole THEN StrQ(rule.resultCode)
        ELSE IF header = quantityRole
             THEN TotalOf(FirstRowPerCode(removed), mappings.original)
        ELSE IF header = descriptionRole THEN StrQ(rule.resultDescription)
        ELSE StrQ(<<>>)]

\* C6: an active MERGE rule with at least one matching row removes every row
\* whose code is one of its source codes, keeps the other rows in their
\* order, and appends one synthesized row: the result code, the sum of the
\* normalized quantities of the source codes (each code by its first row),
\* the result description if a description column is mapped, the empty
\* string under every other header.
C6_MergeRule ==
    (Applied /\ ActiveMergeIndexes # {}) =>
        LET before  == TableBeforeLastMerge
            removed == SelectSeq(before, LAMBDA row : IsSourceOf(LastMerge, row))
            kept    == SelectSeq(before, LAMBDA row : ~IsSourceOf(LastMerge, row))
        IN  IF removed # <<>>
            THEN transformed.data = Append(kept, SynthesizedRow(LastMerge, removed))
            ELSE transformed.data = before

\* rows A = "1.000,5", B = "2,25", D = "5" with the rule A+B->C: [D, C] with
\* the quantity 1002.75
C6_Witness ==
    /\ Applied
    /\ Len(rules) = 1 /\ ActiveMergeIndexes = {1} /\ rules[1].resultCode = <<"C">>
    /\ Len(originalData.data) = 3
    /\ CellStr(originalData.data[1], codeRole) = <<"A">>
    /\ Cell(originalData.data[1], quantityRole)
           = StrQ(<<"1",".","0","0","0",",","5">>)
    /\ CellStr(originalData.data[2], codeRole) = <<"B">>
    /\ CellStr(originalData.data[3], codeRole) = <<"D">>
    /\ Len(transformed.data) = 2
    /\ transformed.data[1] = originalData.data[3]
    /\ transformed.data[2][codeRole] = StrQ(<<"C">>)
    /\ transformed.data[2][quantityRole]
           = NumQ(1002, 75 * Pow10(FracDigits - 2))
    /\ descriptionRole # NoColumn
    /\ transformed.data[2][descriptionRole] = StrQ(<<"M","b">>)

\* a rule merging the row an earlier rule synthesized, and a code twice
ChainedMergeReached ==
    /\ Applied /\ ActiveMergeIndexes = {1, 2}
    /\ Len(transformed.data) = 1
    /\ transformed.data[1][codeRole] = StrQ(<<"E">>)
DuplicateCodeMergeReached ==
    /\ Applied /\ ActiveMergeIndexes # {}
    /\ \E i, j \in 1..Len(originalData.data) :
           /\ i < j
           /\ CellStr(originalData.data[i], codeRole) = <<"A">>
           /\ CellStr(originalData.data[j], codeRole) = <<"A">>
    /\ transformed.data[Len(transformed.data)][codeRole] = StrQ(<<"C">>)

-----------------------------------------------------------------------------
(* Properties of the merged quantity *)

\* what a code adds to the merge of some rows: the quantity of the first row
\* that carries it, nothing when that quantity cannot be parsed
ContributionOf(code, rows) ==
    LET first == CHOOSE i \in 1..Len(rows) :
                     /\ CellStr(rows[i], codeRole) = code
                     /\ \A j \in 1..(i - 1) : CellStr(rows[j], codeRole) # code
        q     == normalizeQuantity(Cell(rows[first], quantityRole))
    IN  IF IsNum(q) THEN q ELSE Zero

RECURSIVE SumOverCodes(_, _)
SumOverCodes(codes, rows) ==
    IF codes = {} THEN Zero
    ELSE LET code == CHOOSE c \in codes : TRUE
         IN  NumAdd(ContributionOf(code, rows), SumOverCodes(codes \ {code}, rows))

CodesOf(rows) == {CellStr(rows[i], codeRole) : i \in 1..Len(rows)}

\* the rows the last active MERGE rule merges
RowsOfLastMerge == SelectSeq(TableBeforeLastMerge, LAMBDA row : IsSourceOf(LastMerge, row))

\* C17: when several rows to be merged carry the same source code, only the
\* first such row's quantity is added to the merged quantity; the later rows
\* of a code already counted are removed from the table and add nothing; a
\* row with an unparseable quantity contributes 0.
C17_FirstRowOfACodeCounts ==
    (Applied /\ ActiveMergeIndexes # {} /\ RowsOfLastMerge # <<>>) =>
        LET merged == transformed.data[Len(transformed.data)]
        IN  /\ merged[quantityRole]
                   = SumOverCodes(CodesOf(RowsOfLastMerge), RowsOfLastMerge)
            /\ Len(transformed.data)
                   = Len(TableBeforeLastMerge) - Len(RowsOfLastMerge) + 1
            /\ \A i \in 1..(Len(transformed.data) - 1) :
                   ~IsSourceOf(LastMerge, transformed.data[i])

\* the rows A = "3" and A = "1.000,5", in this order, with the rule A+B->C:
\* the one row C with the quantity 3
C17_Witness ==
    /\ Applied
    /\ Len(rules) = 1 /\ ActiveMergeIndexes = {1} /\ rules[1].resultCode = <<"C">>
    /\ Len(originalData.data) = 2
    /\ CellStr(originalData.data[1], codeRole) = <<"A">>
    /\ Cell(originalData.data[1], quantityRole) = StrQ(<<"3">>)
    /\ CellStr(originalData.data[2], codeRole) = <<"A">>
    /\ Cell(originalData.data[2], quantityRole)
           = StrQ(<<"1",".","0","0","0",",","5">>)
    /\ Len(transformed.data) = 1
    /\ transformed.data[1][codeRole] = StrQ(<<"C">>)
    /\ transformed.data[1][quantityRole] = NumQ(3, 0)

\* the rows D = "5" and 9901 = "x" with the rule C+D+9901->E: the one row E
\* with the quantity 5; the row 9901 alone: the quantity 0
UnparseableMergedReached ==
    /\ Applied /\ Len(rules) = 1 /\ ActiveMergeIndexes = {1}
    /\ Len(originalData.data) = 2
    /\ \E i \in 1..2 : Cell(originalData.data[i], quantityRole) = StrQ(<<"x">>)
    /\ Len(transformed.data) = 1
    /\ transformed.data[1][codeRole] = StrQ(<<"E">>)
    /\ transformed.data[1][quantityRole] = NumQ(5, 0)
OnlyUnparseableMergedReached ==
    /\ Applied /\ Len(rules) = 1 /\ ActiveMergeIndexes = {1}
    /\ Len(originalData.data) = 1
    /\ Cell(originalData.data[1], quantityRole) = StrQ(<<"x">>)
    /\ Len(transformed.data) = 1
    /\ transformed.data[1][codeRole] = StrQ(<<"E">>)
    /\ transformed.data[1][quantityRole] = Zero

-----------------------------------------------------------------------------
(* Properties of the order of the merges *)

ActiveMerges == SelectSeq(rules, LAMBDA r : IsActive(r) /\ r.type = MERGE)

\* the table the exclusion pass leaves
ExcludedTable == AppliedWith(ActiveExcludes).data

\* one MERGE rule on a table: its source rows replaced by one row at the end
MergeStep(table, rule) ==
    LET removed == SelectSeq(table, LAMBDA row : IsSourceOf(rule, row))
        kept    == SelectSeq(table, LAMBDA row : ~IsSourceOf(rule, row))
    IN  IF removed # <<>> THEN Append(kept, SynthesizedRow(rule, removed))
        ELSE table

\* the rules of a list one after the other, the first one first
RECURSIVE MergedInOrder(_, _)
MergedInOrder(table, ruleList) ==
    IF ruleList = <<>> THEN table
    ELSE MergedInOrder(MergeStep(table, Head(ruleList)), Tail(ruleList))

HasRowOfCode(table, code) ==
    \E i \in 1..Len(table) : CellStr(table[i], codeRole) = code

\* a rule list of two active MERGE rules, the first one's result code among
\* the second one's source codes (chained), or the other way round
\* (unchained), on a table with a source row of each
TwoMergesOnTheirRows ==
    /\ Applied /\ Len(rules) = 2 /\ Len(ActiveMerges) = 2
    /\ \E i \in 1..Len(originalData.data) : IsSourceOf(rules[1], originalData.data[i])
    /\ \E i \in 1..Len(originalData.data) : IsSourceOf(rules[2], originalData.data[i])
Chained ==
    TwoMergesOnTheirRows
    /\ \E i \in 1..Len(rules[2].sourceCodes) :
           rules[2].sourceCodes[i] = rules[1].resultCode
Unchained ==
    TwoMergesOnTheirRows
    /\ \E i \in 1..Len(rules[1].sourceCodes) :
           rules[1].sourceCodes[i] = rules[2].resultCode

\* the sum of what the source rows of a rule in the original table contribute
SourcesTotal(rule) ==
    LET sources == SelectSeq(originalData.data, LAMBDA row : IsSourceOf(rule, row))
    IN  SumOverCodes(CodesOf(sources), sources)

LastRow == transformed.data[Len(transformed.data)]

\* the active MERGE rules are applied in list order, each to the table the
\* previous ones leave; of two chained rules the first one's row is merged
\* by the second, of two unchained ones both rows stay
MergesInListOrder ==
    Applied =>
        /\ transformed.data = MergedInOrder(ExcludedTable, ActiveMerges)
        /\ Chained =>
               /\ LastRow[codeRole] = StrQ(rules[2].resultCode)
               /\ ~HasRowOfCode(transformed.data, rules[1].resultCode)
        /\ Unchained =>
               /\ HasRowOfCode(transformed.data, rules[1].resultCode)
               /\ HasRowOfCode(transformed.data, rules[2].resultCode)

\* C18: the active MERGE rules are applied in list order, each to the table
\* the previous ones leave: a later rule whose source codes include an
\* earlier rule's result code merges the row the earlier rule synthesized
\* (A+B->C then C+D->E leaves a single row E whose quantity is A+B+D), and
\* the same two rules in the opposite order leave both C and E.
C18_ChainedMergeSumsTheSources ==
    /\ MergesInListOrder
    /\ Chained =>
           LastRow[quantityRole] = NumAdd(SourcesTotal(rules[1]), SourcesTotal(rules[2]))

\* the same for the chains whose first sum has no fraction
WholeChainSumsTheSources ==
    (Chained /\ SourcesTotal(rules[1]).lo = 0) =>
        LastRow[quantityRole] = NumAdd(SourcesTotal(rules[1]), SourcesTotal(rules[2]))

\* the rows A = "3", D = "5" with A+B->C and then C+D+9901->E: the one row E
\* with the quantity 8
WholeChainReached ==
    /\ Chained
    /\ rules[1].resultCode = <<"C">> /\ rules[2].resultCode = <<"E">>
    /\ Len(originalData.data) = 2
    /\ SourcesTotal(rules[1]) = NumQ(3, 0) /\ SourcesTotal(rules[2]) = NumQ(5, 0)
    /\ Len(transformed.data) = 1
    /\ LastRow[codeRole] = StrQ(<<"E">>) /\ LastRow[quantityRole] = NumQ(8, 0)

\* the rows A = "1.000,5", B = "2,25", D = "5" with the same rules: the one
\* row E, its quantity 100280 and not 1007.75 (the quantity 1002.75 of the
\* row C is read as 100275)
FractionChainReached ==
    /\ Chained
    /\ rules[1].resultCode = <<"C">> /\ rules[2].resultCode = <<"E">>
    /\ Len(originalData.data) = 3
    /\ SourcesTotal(rules[1]) = NumQ(1002, 75 * Pow10(FracDigits - 2))
    /\ SourcesTotal(rules[2]) = NumQ(5, 0)
    /\ Len(transformed.data) = 1
    /\ LastRow[codeRole] = StrQ(<<"E">>) /\ LastRow[quantityRole] = NumQ(100280, 0)

\* the same rows with the rules in the opposite order: E with the quantity
\* 5 and then C with the quantity 1002.75
OppositeOrderReached ==
    /\ Unchained
    /\ rules[1].resultCode = <<"E">> /\ rules[2].resultCode = <<"C">>
    /\ Len(originalData.data) = 3
    /\ HasRowOfCode(originalData.data, <<"A">>)
    /\ HasRowOfCode(originalData.data, <<"B">>)
    /\ HasRowOfCode(originalData.data, <<"D">>)
    /\ Len(transformed.data) = 2
    /\ transformed.data[1][codeRole] = StrQ(<<"E">>)
    /\ transformed.data[1][quantityRole] = NumQ(5, 0)
    /\ transformed.data[2][codeRole] = StrQ(<<"C">>)
    /\ transformed.data[2][quantityRole]
           = NumQ(1002, 75 * Pow10(FracDigits - 2))

-----------------------------------------------------------------------------
(* Properties of the merged quantity as compareData reads it *)

\* the row the last active MERGE rule has synthesized
MergedRow == transformed.data[Len(transformed.data)]
MergeHappened == Applied /\ ActiveMergeIndexes # {} /\ RowsOfLastMerge # <<>>

\* C25: a quantity written by the merge pass is read back unchanged by the
\* Reconciler: the quantity that compareData obtains by normalizing the
\* quantity cell of the synthesized row equals the merged sum that
\* applyTransformationRules computed and stored in it.
C25_MergedQuantityReadBackUnchanged ==
    MergeHappened =>
        /\ MergedRow[quantityRole]
               = SumOverCodes(CodesOf(RowsOfLastMerge), RowsOfLastMerge)
        /\ RowQuantity(MergedRow, mappings.original) = MergedRow[quantityRole]

\* the same for the sums without a fraction
WholeMergedQuantityReadBack ==
    (MergeHappened /\ MergedRow[quantityRole].lo = 0) =>
        RowQuantity(MergedRow, mappings.original) = MergedRow[quantityRole]

\* a sum with a fraction is read back without its decimal point
FractionMergedQuantityReadBack ==
    (MergeHappened /\ MergedRow[quantityRole].lo # 0) =>
        /\ IsNum(RowQuantity(MergedRow, mappings.original))
        /\ RowQuantity(MergedRow, mappings.original).lo = 0
        /\ RowQuantity(MergedRow, mappings.original).hi > MergedRow[quantityRole].hi

\* the rows A = "1.000,5" and B = "2,25" with A+B->C: the row C holds
\* 1002.75 and compareData reads 100275
FractionReadBackReached ==
    /\ MergeHappened /\ Len(rules) = 1
    /\ Len(originalData.data) = 2
    /\ MergedRow[codeRole] = StrQ(<<"C">>)
    /\ MergedRow[quantityRole] = NumQ(1002, 75 * Pow10(FracDigits - 2))
    /\ RowQuantity(MergedRow, mappings.original) = NumQ(100275, 0)

\* the rows A = "3" and D = "5": the sums 3 and 5 are read back as they are
WholeReadBackReached ==
    /\ MergeHappened /\ Len(rules) = 1
    /\ MergedRow[quantityRole] = NumQ(3, 0)
    /\ RowQuantity(MergedRow, mappings.original) = NumQ(3, 0)

-----------------------------------------------------------------------------
(* Properties of the order of the two passes *)

\* an active EXCLUDE rule matches the row
IsExcluded(row) ==
    \E i \in 1..Len(ActiveExcludes) :
        MatchesWith(ActiveExcludes[i], row, TextUnlessZero(row, descriptionRole),
                    TextUnlessZero(row, categoryRole))

\* the rows of the table that no active EXCLUDE rule matches
Survivors == SelectSeq(originalData.data, LAMBDA row : ~IsExcluded(row))

\* C29: the exclusion pass runs entirely before the merge pass: the rows an
\* EXCLUDE rule removes never contribute to a merged quantity (the merges
\* are those of the surviving rows alone), and a row a MERGE rule has
\* synthesized is never removed by an EXCLUDE rule, even when its result
\* code or its result description matches that rule.
C29_ExclusionBeforeMerge ==
    Applied =>
        /\ transformed.data = MergedInOrder(Survivors, ActiveMerges)
        /\ \A i \in ActiveMergeIndexes :
               (\E k \in 1..Len(Survivors) : IsSourceOf(rules[i], Survivors[k]))
                   => \/ HasRowOfCode(transformed.data, rules[i].resultCode)
                      \/ \E j \in ActiveMergeIndexes :
                             /\ j > i
                             /\ \E k \in 1..Len(rules[j].sourceCodes) :
                                    rules[j].sourceCodes[k] = rules[i].resultCode

\* DESCRIPTION_CONTAINS "b" with A+B->C, description "Mb", on the rows
\* A = "3" and B = "2,25" (description "Ba"): the row B is excluded and adds
\* nothing, the row C has the quantity 3 and stays although the rule
\* matches its description
C29_Witness ==
    /\ Applied /\ Len(rules) = 2
    /\ Len(ActiveExcludes) = 1 /\ ActiveExcludes[1].subType = "DESCRIPTION_CONTAINS"
    /\ ActiveMergeIndexes # {} /\ descriptionRole # NoColumn
    /\ Len(originalData.data) = 2
    /\ CellStr(originalData.data[1], codeRole) = <<"A">>
    /\ CellStr(originalData.data[2], codeRole) = <<"B">>
    /\ Survivors = <<originalData.data[1]>>
    /\ Len(transformed.data) = 1
    /\ transformed.data[1][codeRole] = StrQ(<<"C">>)
    /\ transformed.data[1][quantityRole] = NumQ(3, 0)
    /\ IsExcluded(transformed.data[1])

\* CODE_EXACT "A+ B+E" with C+D+9901->E on the row D = "5": the row E stays
\* although the rule names its code
ResultCodeExcludedReached ==
    /\ Applied /\ Len(rules) = 2
    /\ Len(ActiveExcludes) = 1 /\ ActiveExcludes[1].subType = "CODE_EXACT"
    /\ ActiveMergeIndexes # {}
    /\ Len(originalData.data) = 1
    /\ transformed.data = <<[originalData.data[1] EXCEPT
                                ![codeRole] = StrQ(<<"E">>),
                                ![quantityRole] = NumQ(5, 0)]>>
    /\ IsExcluded(transformed.data[1])

-----------------------------------------------------------------------------
(* Properties of the order of the exclusions *)

\* the orders of the rule list that leave its MERGE rules in their order
Reorderings ==
    { p \in [1..Len(rules) -> 1..Len(rules)] :
        /\ \A i, j \in 1..Len(rules) : i # j => p[i] # p[j]
        /\ \A i, j \in 1..Len(rules) :
               (i < j /\ rules[p[i]].type = MERGE /\ rules[p[j]].type = MERGE)
                   => p[i] < p[j] }
Reordered(p) == [i \in 1..Len(rules) |-> rules[p[i]]]

\* a rule, tested alone, keeps a row
AloneKeeps(rule, row) ==
    applyTransformationRules(ParsedFile(<<row>>), <<rule>>, codeRole, quantityRole,
                             descriptionRole, categoryRole).data = <<row>>

\* C19: the exclusion pass is independent of rule order: for every
\* permutation of the active EXCLUDE rules the surviving rows and their
\* order are the same, and they are the rows that no single rule matches
\* when tested alone.
C19_ExclusionOrderIndependent ==
    Applied =>
        /\ \A p \in Reorderings : AppliedWith(Reordered(p)) = transformed
        /\ ExcludedTable =
               SelectSeq(originalData.data, LAMBDA row :
                   \A i \in 1..Len(ActiveExcludes) : AloneKeeps(ActiveExcludes[i], row))
        /\ ActiveMergeIndexes = {} => transformed.data = ExcludedTable

\* three rows and two active EXCLUDE rules: one row only the first rule
\* matches, one row only the second, one row neither, which alone survives
C19_Witness ==
    /\ Applied /\ Len(ActiveExcludes) = 2 /\ Len(originalData.data) = 3
    /\ \E i, j, k \in 1..3 :
           /\ ~AloneKeeps(rules[1], originalData.data[i])
           /\ AloneKeeps(rules[2], originalData.data[i])
           /\ AloneKeeps(rules[1], originalData.data[j])
           /\ ~AloneKeeps(rules[2], originalData.data[j])
           /\ AloneKeeps(rules[1], originalData.data[k])
           /\ AloneKeeps(rules[2], originalData.data[k])
           /\ transformed.data = <<originalData.data[k]>>

-----------------------------------------------------------------------------
(* Properties of the active rule list *)

\* the rule list without its disabled rules; the rule list with the flag of
\* every enabled rule left out
WithoutDisabled == SelectSeq(rules, LAMBDA r : r.enabled # "false")
WithFlagAbsent ==
    [i \in 1..Len(rules) |->
        IF rules[i].enabled = "true" THEN [rules[i] EXCEPT !.enabled = "undefined"]
        ELSE rules[i]]

\* C13: only the rules whose enabled flag is not false take part: apply
\* returns what it returns for the list without the disabled rules, and
\* what it returns when the enabled rules carry no flag at all.
C13_OnlyEnabledRulesApply ==
    Applied =>
        /\ transformed = AppliedWith(WithoutDisabled)
        /\ transformed = AppliedWith(WithFlagAbsent)

\* a disabled rule that would have changed the table, next to an enabled
\* one that did
C13_Witness ==
    /\ Applied /\ Len(rules) = 2
    /\ \E i, j \in 1..2 :
           /\ rules[i].enabled = "false" /\ rules[j].enabled = "true"
           /\ AppliedWith(<<[rules[i] EXCEPT !.enabled = "true"]>>).data
                  # originalData.data
    /\ transformed.data # originalData.data

-----------------------------------------------------------------------------
(* The Quantity Normalizer on its own: a cell, its normalization, the number
   stored back in the cell *)

CellChars == {"0", "1", "5", ",", ".", "-", " ", "x"}

\* the cell texts of at most MaxLen characters, and some longer ones: a
\* thousands separator with a decimal comma, a number below 1e-6
CellTexts ==
    UNION { [1..n -> CellChars] : n \in 0..MaxLen }
    \cup { <<"1",".","2","3","4",",","5","0">>,
           <<"0",",","0","0","0","0","0","0","5">> }

\* normalizeQuantity(cell)
NormalizeCell ==
    /\ qNum = NotRun
    /\ qNum' = normalizeQuantity(qCell)
    /\ UNCHANGED <<qCell, qPrev, originalData, partialData, mappings, rules,
                   aggregateCodes, ignoreRevision, results, error, rowsRead,
                   transformed, rulesSheet, rulesParsed>>

\* the number is stored in a cell, as the merge pass stores totalQuantity
\* (newRow[header] = totalQuantity) and as a numeric spreadsheet cell is read
StoreNumber ==
    /\ qCell.t = "str" /\ IsNum(qNum)
    /\ qCell' = qNum
    /\ qPrev' = qNum
    /\ qNum' = NotRun
    /\ UNCHANGED <<originalData, partialData, mappings, rules, aggregateCodes,
                   ignoreRevision, results, error, rowsRead, transformed,
                   rulesSheet, rulesParsed>>

InitNorm ==
    /\ qCell \in {StrQ(text) : text \in CellTexts}
    /\ qNum = NotRun /\ qPrev = NotRun
    /\ ApplicatorIdle /\ ComparerIdle /\ InterpreterIdle
    /\ originalData = ParsedFile(<<>>)
    /\ mappings = [original |-> FullMapping, partial |-> FullMapping]

NextNorm == NormalizeCell \/ StoreNumber

SpecNorm == InitNorm /\ [][NextNorm]_vars

\* a canonical string of the "1234.56" style: digits, at most a sign and a
\* decimal point, no exponent
PlainDecimal(text) == \A i \in 1..Len(text) : text[i] \in Digits \cup {".", "-"}

\* the cell holds the number n that a text normalized to, and has been
\* normalized again: qNum is normalize(n.toString())
RoundTripped == qCell.t = "num" /\ qNum # NotRun

\* C10: the normalizer round-trips: for a number n that an input normalized
\* to and whose canonical string is of the "1234.56" style,
\* normalize(n.toString()) equals n.
C10_NormalizerRoundTrip ==
    (RoundTripped /\ PlainDecimal(NumToStr(qCell))) => qNum = qCell

\* the round trip of a number without a fraction, where it does hold
WholeNumberRoundTrip ==
    (RoundTripped /\ qCell.lo = 0) => qNum = qCell
WholeNumberRoundTripReached ==
    RoundTripped /\ qCell.lo = 0 /\ qCell.hi = 15 /\ qNum = qCell

-----------------------------------------------------------------------------
(* The Rule Interpreter on its own: the rows of a rules file *)

MaxSheetRows == 2

\* a row of a rules sheet that has the six columns
RuleFileRow(tipo, codici, valore, sottoTipo, risultante, descrizione) ==
    ("Tipo" :> StrQ(tipo)) @@ ("Codici da unire" :> codici)
    @@ ("Valore" :> StrQ(valore)) @@ ("Sotto-tipo" :> StrQ(sottoTipo))
    @@ ("Codice risultante" :> StrQ(risultante))
    @@ ("Descrizione risultante" :> StrQ(descrizione))

\* a row of a sheet of the older layout: no Valore, no Sotto-tipo
LegacyFileRow(tipo, codici, risultante, descrizione) ==
    ("Tipo" :> StrQ(tipo)) @@ ("Codici da unire" :> StrQ(codici))
    @@ ("Codice risultante" :> StrQ(risultante))
    @@ ("Descrizione risultante" :> StrQ(descrizione))

Esclude == <<"E", "S", "C", "L", "U", "D", "I">>
Unione == <<"U", "N", "I", "O", "N", "E">>

\* rows of a rules file: exact codes; a named sub-type over a legacy text; a
\* text two legacy patterns match; each legacy pattern; a category text
\* without the space; an unknown and a padded sub-type; empty quotes; a
\* number; rows without type, of an unknown type, without value; merges
RuleFileRows ==
   << LegacyFileRow(Esclude, <<"A", "+", " ", "B">>, <<>>, <<>>),
      RuleFileRow(Esclude, StrQ(<<>>),
                  <<"D", "E", "S", "C", "R", "I", "Z", "I", "O", "N", "I",
                    " ", "C", "O", "N", "T", "E", "N", "E", "N", "T", "I",
                    " ", "\"", "b", "\"">>,
                  <<"C", "O", "D", "E", "_", "P", "R", "E", "F", "I", "X">>, <<>>, <<>>),
      LegacyFileRow(Esclude,
                    <<"C", "o", "d", "i", "c", "i", " ", "c", "h", "e", " ",
                      "i", "n", "i", "z", "i", "a", "n", "o", " ", "p", "e",
                      "r", " ", "\"", "9", "9", "\"", " ", "d", "e", "s",
                      "c", "r", "i", "z", "i", "o", "n", "i", " ", "c", "o",
                      "n", "t", "e", "n", "e", "n", "t", "i", " ", "\"", "b",
                      "\"">>,
                    <<>>, <<>>),
      LegacyFileRow(Esclude,
                    <<"t", "u", "t", "t", "e", " ", "l", "e", " ", "d", "e",
                      "s", "c", "r", "i", "z", "i", "o", "n", "i", " ", "c",
                      "h", "e", " ", "i", "n", "i", "z", "i", "a", " ", "c",
                      "o", "n", " ", "\"", "b", "\"">>,
                    <<>>, <<>>),
      LegacyFileRow(Esclude,
                    <<"C", "o", "d", "i", "c", "e", " ", " ", "c", "h", "e",
                      " ", "i", "n", "i", "z", "i", "a", " ", "p", "e", "r",
                      "\"", "9", "9", "\"">>,
                    <<>>, <<>>),
      LegacyFileRow(Esclude,
                    <<"C", "A", "T", "E", "G", "O", "R", "I", "E", " ", "M",
                      "E", "R", "C", "E", "O", "L", "O", "G", "I", "C", "H",
                      "E", " ", "\"", "c", "\"">>,
                    <<>>, <<>>),
      LegacyFileRow(Esclude,
                    <<"C", "A", "T", "E", "G", "O", "R", "I", "E", " ", "M",
                      "E", "R", "C", "E", "O", "L", "O", "G", "I", "C", "H",
                      "E", "\"", "c", "\"">>,
                    <<>>, <<>>),
      RuleFileRow(<<" ", "e", "s", "c", "l", "u", "d", "i", " ">>, StrQ(<<>>), <<"9", "9">>,
                  <<"c", "o", "d", "e", "_", "p", "r", "e", "f", "i", "x">>, <<>>, <<>>),
      RuleFileRow(Esclude, StrQ(<<" ", "b", " ">>), <<>>,
                  <<" ", "D", "E", "S", "C", "R", "I", "P", "T", "I", "O",
                    "N", "_", "P", "R", "E", "F", "I", "X", " ">>, <<>>, <<>>),
      LegacyFileRow(Esclude,
                    <<"D", "E", "S", "C", "R", "I", "Z", "I", "O", "N", "I",
                      " ", "C", "O", "N", "T", "E", "N", "E", "N", "T", "I",
                      " ", "\"", "\"">>,
                    <<>>, <<>>),
      RuleFileRow(Esclude, NumQ(99, 0), <<>>, <<>>, <<>>, <<>>),
      RuleFileRow(Esclude, NumQ(0, 0), <<"c">>, <<"C", "A", "T", "E", "G", "O",
                                              "R", "Y", "_", "E", "X", "A",
                                              "C", "T">>,
                  <<>>, <<>>),
      LegacyFileRow(<<>>, <<"A">>, <<>>, <<>>),
      LegacyFileRow(<<"A", "L", "T", "R", "O">>, <<"A">>, <<>>, <<>>),
      RuleFileRow(Esclude, StrQ(<<>>), <<>>, <<"C", "O", "D", "E", "_", "E",
                                               "X", "A", "C", "T">>,
                  <<>>, <<>>),
      LegacyFileRow(Unione, <<"A", " ", "+", " ", "B">>, <<"C">>, <<"M">>),
      LegacyFileRow(Unione, <<"A", "+", "B">>, <<>>, <<"M">>) >>

\* parseRulesFile(file) resolves and its rules are stored: setRules(parsedRules)
ParseRules ==
    /\ ~rulesParsed
    /\ rules' = parseRulesFile(rulesSheet)
    /\ rulesParsed' = TRUE
    /\ UNCHANGED <<qCell, qNum, qPrev, originalData, partialData, mappings,
                   aggregateCodes, ignoreRevision, results, error, rowsRead,
                   transformed, rulesSheet>>

InitParse ==
    /\ NormalizerIdle /\ ApplicatorIdle /\ ComparerIdle
    /\ originalData = ParsedFile(<<>>)
    /\ mappings = [original |-> FullMapping, partial |-> FullMapping]
    /\ rulesSheet \in TablesOf(RuleFileRows, MaxSheetRows)
    /\ rulesParsed = FALSE

NextParse == ParseRules

SpecParse == InitParse /\ [][NextParse]_vars

-----------------------------------------------------------------------------
(* Properties of parseRulesFile *)

\* the rows of type EXCLUDE that have a value, and the EXCLUDE rules emitted
ExcludeRows ==
    SelectSeq(rulesSheet, LAMBDA row : /\ TypeOf(row) = Esclude
                                       /\ CodesOrValueOf(row) # <<>>)
EmittedExcludes == SelectSeq(rules, LAMBDA r : r.type = EXCLUDE)

LegacyOrder == <<DescriptionContains, DescriptionPrefix, CodePrefix, CategoryExact>>
MatchesLegacy(row, k) == Match(CodesOrValueOf(row), LegacyOrder[k].regex) # NoMatch
NamesSubType(row) == IsSubType(SubTypeStrOf(row))

\* the rule r is the one the precedence gives the row
ChosenByPrecedence(row, r) ==
    IF NamesSubType(row)
    THEN r.subType = SubTypeNamed(SubTypeStrOf(row)) /\ r.value = CodesOrValueOf(row)
    ELSE IF \E k \in 1..4 : MatchesLegacy(row, k)
    THEN LET k == CHOOSE j \in 1..4 : /\ MatchesLegacy(row, j)
                                      /\ \A m \in 1..(j - 1) : ~MatchesLegacy(row, m)
         IN  /\ r.subType = LegacyOrder[k].subType
             /\ r.value = Match(CodesOrValueOf(row), LegacyOrder[k].regex).text
    ELSE r.subType = "CODE_EXACT" /\ r.value = CodesOrValueOf(row)

\* C16: for a rule row of type EXCLUDE the sub-kind is chosen by strict
\* precedence: a Sotto-tipo naming a known sub-kind wins, with the value
\* verbatim; otherwise the first matching legacy pattern in the order
\* description-contains, description-prefix, code-prefix, category-exact,
\* with the quoted literal as value; otherwise CODE_EXACT with the value
\* verbatim.  Every emitted rule has enabled = true.
C16_ExcludeSubKindByPrecedence ==
    rulesParsed =>
        /\ Len(EmittedExcludes) = Len(ExcludeRows)
        /\ \A i \in 1..Len(ExcludeRows) :
               ChosenByPrecedence(ExcludeRows[i], EmittedExcludes[i])
        /\ \A i \in 1..Len(rules) : rules[i].enabled = "true"

\* a sheet of a row that names a sub-type over a legacy text and a row whose
\* text the code-prefix and the description-contains pattern both match
C16_Witness ==
    /\ rulesParsed /\ Len(rulesSheet) = 2 /\ Len(rules) = 2
    /\ NamesSubType(rulesSheet[1]) /\ MatchesLegacy(rulesSheet[1], 1)
    /\ rules[1].subType = "CODE_PREFIX"
    /\ ~NamesSubType(rulesSheet[2])
    /\ MatchesLegacy(rulesSheet[2], 1) /\ MatchesLegacy(rulesSheet[2], 3)
    /\ rules[2].subType = "DESCRIPTION_CONTAINS" /\ rules[2].value = <<"b">>

\* each legacy pattern and the default decide some row
EachSubKindReached(subType) ==
    /\ rulesParsed
    /\ \E i \in 1..Len(ExcludeRows) :
           ~NamesSubType(ExcludeRows[i]) /\ EmittedExcludes[i].subType = subType
DescriptionPrefixReached == EachSubKindReached("DESCRIPTION_PREFIX")
CodePrefixReached == EachSubKindReached("CODE_PREFIX")
CategoryExactReached == EachSubKindReached("CATEGORY_EXACT")
CodeExactReached == EachSubKindReached("CODE_EXACT")
MergeParsedReached ==
    rulesParsed /\ \E i \in 1..Len(rules) : rules[i].type = MERGE

====
